---- MODULE Spec2Model ----
(***************************************************************************)
(* bcf_nanopore: the PromethION directory scanner (ProjectDir, FlowCell,   *)
(* BasecallsDir) and the MinKNOW report metadata loader                    *)
(* (HtmlReport, JsonReport, BasecallsMetadata) of nanopore/promethion.py.  *)
(*                                                                         *)
(* Python values are modelled as follows.  A str is a TLA+ string, read    *)
(* character by character with SubSeq.  An attribute that may be None is   *)
(* the empty tuple (None) or a one-element tuple (Some(v)).  A dict is a   *)
(* function on its keys, a list is a sequence.  An absolute path is the    *)
(* sequence of its components ("/a/b" is <<"a", "b">>).  An operator that  *)
(* models code which can raise returns a record whose field "raised" says  *)
(* whether it did.                                                         *)
(***************************************************************************)
EXTENDS Integers, Sequences, FiniteSets, TLC

VARIABLES
    project_dir,   \* absolute path handed to ProjectDir(path)
    tree,          \* filesystem: directory (absolute path) -> listing of its child directory names
    files,         \* filesystem: directory (absolute path) -> listing of its regular files
    located,       \* the scan's local sets flow_cell_dirs and basecalls_dirs
    project,       \* the ProjectDir object the scan built, or that it raised
    metadata,      \* a BasecallsMetadata object loaded report by report
    loaded,        \* the report files handed to metadata.load_from_report so far
    last_load,     \* how the latest load_from_report call ended
    flow_cell,     \* what FlowCell(path), called without a project directory, gave
    fc_name,       \* a str handed to is_flow_cell_name and the two get_ functions
    answer,        \* what the three functions returned for fc_name
    record,        \* the flat record cli.info exports for the metadata
    analysis_dir,  \* a ProjectAnalysisDir: its directory on disk and its project info
    outcome,       \* how the latest ProjectAnalysisDir call ended
    basecalls_info,\* a FlowcellBasecallsInfo: its entries and how add_base_calls ended
    samples_csv,   \* the samples CSV handed to cli.setup and what was read from it
    fetched        \* a cli.fetch call: its arguments, where it is, the commands it ran

vars ==
    <<project_dir, tree, files, located, project, metadata, loaded, last_load,
      flow_cell, fc_name, answer, record, analysis_dir, outcome, basecalls_info,
      samples_csv, fetched>>

scan_vars == <<project_dir, tree, files, located, project>>

meta_vars == <<metadata, loaded, last_load>>

name_vars == <<fc_name, answer>>

cli_vars == <<record, analysis_dir, outcome, basecalls_info, samples_csv, fetched>>

(***************************************************************************)
(* Python values                                                           *)
(***************************************************************************)
None == <<>>

Some(v) == <<v>>

\* Python truth value of an optional str: None and "" are false
Truthy(x) == x # None /\ x[1] # ""

CharAt(s, i) == SubSeq(s, i, i)

StartsWith(s, prefix) ==
    /\ Len(s) >= Len(prefix)
    /\ SubSeq(s, 1, Len(prefix)) = prefix

EndsWith(s, suffix) ==
    /\ Len(s) >= Len(suffix)
    /\ SubSeq(s, Len(s) - Len(suffix) + 1, Len(s)) = suffix

\* the characters of the model's strings in code point order
Alphabet == " &,-.0123456789;=@ABCDEFGHIJKLMNOPQRSTUVWXYZ_abcdefghijklmnopqrstuvwxyz{}"

Ord(c) == CHOOSE i \in 1..Len(Alphabet) : CharAt(Alphabet, i) = c

\* s < t in Python's str order (code point by code point, a proper prefix first)
RECURSIVE StrLess(_, _)
StrLess(s, t) ==
    IF Len(t) = 0 THEN FALSE
    ELSE IF Len(s) = 0 THEN TRUE
    ELSE IF CharAt(s, 1) = CharAt(t, 1)
         THEN StrLess(SubSeq(s, 2, Len(s)), SubSeq(t, 2, Len(t)))
         ELSE Ord(CharAt(s, 1)) < Ord(CharAt(t, 1))

Digits == {"0", "1", "2", "3", "4", "5", "6", "7", "8", "9"}

UpperCase == {CharAt("ABCDEFGHIJKLMNOPQRSTUVWXYZ", i) : i \in 1..26}

LowerCase == {CharAt("abcdefghijklmnopqrstuvwxyz", i) : i \in 1..26}

\* a sequence with its i-th element dropped
RemoveAt(seq, i) == SubSeq(seq, 1, i - 1) \o SubSeq(seq, i + 1, Len(seq))

\* a sequence with x put in as its i-th element
InsertAt(seq, i, x) == SubSeq(seq, 1, i - 1) \o <<x>> \o SubSeq(seq, i, Len(seq))

Range(seq) == {seq[i] : i \in 1..Len(seq)}

\* every ordering of a finite set, as sequences without repetition
Orderings(S) == {q \in [1..Cardinality(S) -> S] : Range(q) = S}

(***************************************************************************)
(* os.path on absolute paths                                               *)
(***************************************************************************)
basename(path) == IF path = <<>> THEN "" ELSE path[Len(path)]

dirname(path) == IF path = <<>> THEN <<>> ELSE SubSeq(path, 1, Len(path) - 1)

join(path, name) == Append(path, name)

\* str.split(os.sep) of an absolute path: the text before the leading "/" is ""
split(path) == <<"">> \o path

(***************************************************************************)
(* RE_FLOW_CELL_NAME, is_flow_cell_name, get_flow_cell_id,                 *)
(* get_flow_cell_datestamp                                                 *)
(***************************************************************************)
\* the position after the longest run of characters of class cls from position i on
RECURSIVE RunEnd(_, _, _)
RunEnd(s, i, cls) ==
    IF i <= Len(s) /\ CharAt(s, i) \in cls THEN RunEnd(s, i + 1, cls) ELSE i

\* whether the character at position i is there and in class cls
IsAt(s, i, cls) == i <= Len(s) /\ CharAt(s, i) \in cls

\* the pattern as it would be with [A-Z] for the "P"
FLOW_CELL_NAME_PATTERN_AnyLetter ==
    <<[cls |-> Digits, many |-> TRUE],
      [cls |-> {"_"}, many |-> FALSE],
      [cls |-> Digits, many |-> TRUE],
      [cls |-> {"_"}, many |-> FALSE],
      [cls |-> Digits, many |-> FALSE],
      [cls |-> UpperCase, many |-> FALSE],
      [cls |-> {"_"}, many |-> FALSE],
      [cls |-> UpperCase, many |-> FALSE],
      [cls |-> UpperCase, many |-> FALSE],
      [cls |-> UpperCase, many |-> FALSE],
      [cls |-> Digits, many |-> TRUE],
      [cls |-> {"_"}, many |-> FALSE],
      [cls |-> LowerCase \cup Digits, many |-> TRUE]>>

\* the pattern ^([0-9]+)_([0-9]+)_([0-9][A-Z])_(P[A-Z][A-Z][0-9]+)_([a-z0-9]+)$
\* as its character classes in turn, "many" for a class under "+"
FLOW_CELL_NAME_PATTERN ==
    <<[cls |-> Digits, many |-> TRUE],
      [cls |-> {"_"}, many |-> FALSE],
      [cls |-> Digits, many |-> TRUE],
      [cls |-> {"_"}, many |-> FALSE],
      [cls |-> Digits, many |-> FALSE],
      [cls |-> UpperCase, many |-> FALSE],
      [cls |-> {"_"}, many |-> FALSE],
      [cls |-> {"P"}, many |-> FALSE],
      [cls |-> UpperCase, many |-> FALSE],
      [cls |-> UpperCase, many |-> FALSE],
      [cls |-> Digits, many |-> TRUE],
      [cls |-> {"_"}, many |-> FALSE],
      [cls |-> LowerCase \cup Digits, many |-> TRUE]>>

\* the position after what class k matches from position i on: the longest
\* run under "+", one character otherwise; i when it matches nothing
ClassEnd(s, i, class) ==
    IF class.many THEN RunEnd(s, i, class.cls)
    ELSE IF IsAt(s, i, class.cls) THEN i + 1
    ELSE i

\* the positions after the classes k, k + 1, ... matched from position i on,
\* up to the first class that matches nothing; e is the position after class
\* k.  No class under "+" holds the character that follows it in the
\* pattern, so each greedy run ends where the pattern goes on and there is
\* nothing to backtrack
RECURSIVE MatchClasses(_, _, _)
MatchFrom(s, i, k, e) ==
    IF e = i THEN <<>> ELSE <<e>> \o MatchClasses(s, e, k + 1)

MatchClasses(s, i, k) ==
    IF k > Len(FLOW_CELL_NAME_PATTERN) THEN <<>>
    ELSE MatchFrom(s, i, k, ClassEnd(s, i, FLOW_CELL_NAME_PATTERN[k]))

\* the match object for the positions after the classes that matched:
\* whether the whole pattern matched, and groups 1 and 4; "$" also matches
\* before a final newline
MatchObject(name, ends) ==
    IF /\ Len(ends) = Len(FLOW_CELL_NAME_PATTERN)
       /\ \/ ends[Len(ends)] = Len(name) + 1
          \/ ends[Len(ends)] = Len(name) /\ CharAt(name, Len(name)) = "\n"
    THEN [matched |-> TRUE,
          group1 |-> SubSeq(name, 1, ends[1] - 1),
          group4 |-> SubSeq(name, ends[7], ends[11] - 1)]
    ELSE [matched |-> FALSE, group1 |-> "", group4 |-> ""]

\* RE_FLOW_CELL_NAME.match(name)
RE_FLOW_CELL_NAME(name) == MatchObject(name, MatchClasses(name, 1, 1))

\* match.group(n) of a match object, "" where the code catches AttributeError
GroupOrEmpty(match, group) == IF match.matched THEN match[group] ELSE ""

is_flow_cell_name(name) == RE_FLOW_CELL_NAME(name).matched

\* get_flow_cell_id as it would be with group(1)
get_flow_cell_id_Group1(name) == GroupOrEmpty(RE_FLOW_CELL_NAME(name), "group1")

get_flow_cell_id(name) == GroupOrEmpty(RE_FLOW_CELL_NAME(name), "group4")

get_flow_cell_datestamp(name) == GroupOrEmpty(RE_FLOW_CELL_NAME(name), "group1")

(***************************************************************************)
(* Report files.  A directory entry is [name, content], and a content is  *)
(* a record whose field kind is one of                                     *)
(*   "lines"     a text of lines that is not JSON as a whole; each line is *)
(*               [text, json, tail]: the characters text, then (when json  *)
(*               is Some(doc)) the serialisation of the JSON object doc,   *)
(*               which starts with "{" and ends with "}", then the         *)
(*               characters tail;                                          *)
(*   "object"    the JSON text of the dict in field value;                 *)
(*   "array"     the JSON text of the list in field value;                 *)
(*   "garbage"   a text that is neither;                                   *)
(*   "directory" not a file at all: open() raises.                         *)
(***************************************************************************)
Whitespace == {" ", "\n", "\t", "\r"}

RECURSIVE lstrip(_)
lstrip(s) ==
    IF Len(s) > 0 /\ CharAt(s, 1) \in Whitespace
    THEN lstrip(SubSeq(s, 2, Len(s)))
    ELSE s

RECURSIVE rstrip(_)
rstrip(s) ==
    IF Len(s) > 0 /\ CharAt(s, Len(s)) \in Whitespace
    THEN rstrip(SubSeq(s, 1, Len(s) - 1))
    ELSE s

strip(s) == rstrip(lstrip(s))

\* str.lower() of one character
LowerChar(c) ==
    IF c \in UpperCase
    THEN CharAt("abcdefghijklmnopqrstuvwxyz",
                CHOOSE i \in 1..26 : CharAt("ABCDEFGHIJKLMNOPQRSTUVWXYZ", i) = c)
    ELSE c

\* title.lower().replace(' ', '_').replace('-', '_').replace('.', '')
RECURSIVE NormalizeTitle(_)
NormalizeTitle(title) ==
    IF Len(title) = 0 THEN ""
    ELSE LET c == LowerChar(CharAt(title, 1))
             k == IF c \in {" ", "-"} THEN "_" ELSE IF c = "." THEN "" ELSE c
         IN  k \o NormalizeTitle(SubSeq(title, 2, Len(title)))

HasKey(dict, key) == key \in DOMAIN dict

MARKER_REPORT_DATA_JSON == "const reportDataJson = "

MARKER_REPORT_DATA == "const reportData="

\* line.strip() up to the embedded JSON object (or all of it when there is none)
StrippedHead(line) ==
    IF line.json = None THEN strip(line.text \o line.tail) ELSE lstrip(line.text)

\* line.strip() after the embedded JSON object
StrippedTail(line) == IF line.json = None THEN "" ELSE rstrip(line.tail)

\* line.strip().startswith(marker + "{")
LineStartsWith(line, marker) ==
    \/ StartsWith(StrippedHead(line), marker \o "{")
    \/ line.json # None /\ StrippedHead(line) = marker

\* json.loads of the stripped line from the end of the marker on, with its
\* last `cut` characters dropped: it is the object when nothing but white
\* space is left around it
LoadsAfterMarker(line, marker, cut) ==
    LET rest == StrippedTail(line)
    IN  IF /\ line.json # None
           /\ StrippedHead(line) = marker
           /\ Len(rest) >= cut
           /\ strip(SubSeq(rest, 1, Len(rest) - cut)) = ""
        THEN [raised |-> FALSE, value |-> line.json[1]]
        ELSE [raised |-> TRUE, value |-> None]

\* the loop as it would be if both branches sliced [len(marker):-1]
RECURSIVE ExtractFromLines_CutBoth(_)
ExtractFromLines_CutBoth(lines) ==
    IF lines = <<>> THEN [raised |-> TRUE, value |-> None]
    ELSE IF LineStartsWith(Head(lines), MARKER_REPORT_DATA_JSON)
         THEN LoadsAfterMarker(Head(lines), MARKER_REPORT_DATA_JSON, 1)
    ELSE IF LineStartsWith(Head(lines), MARKER_REPORT_DATA)
         THEN LoadsAfterMarker(Head(lines), MARKER_REPORT_DATA, 1)
    ELSE ExtractFromLines_CutBoth(Tail(lines))

\* "for line in fp" of HtmlReport.extract_json, then json.loads
RECURSIVE ExtractFromLines(_)
ExtractFromLines(lines) ==
    IF lines = <<>> THEN [raised |-> TRUE, value |-> None]
    ELSE IF LineStartsWith(Head(lines), MARKER_REPORT_DATA_JSON)
         THEN LoadsAfterMarker(Head(lines), MARKER_REPORT_DATA_JSON, 1)
    ELSE IF LineStartsWith(Head(lines), MARKER_REPORT_DATA)
         THEN LoadsAfterMarker(Head(lines), MARKER_REPORT_DATA, 0)
    ELSE ExtractFromLines(Tail(lines))

\* extract_json as it would be if a file without a marker line gave an empty
\* object instead of raising
HtmlReport_extract_json_EmptyDefault(content) ==
    IF content.kind = "lines" /\ ~ExtractFromLines(content.lines).raised
    THEN ExtractFromLines(content.lines)
    ELSE [raised |-> FALSE, value |-> [k \in {} |-> <<>>]]

\* HtmlReport.extract_json: a JSON text or a garbage text has no marker line
HtmlReport_extract_json(content) ==
    IF content.kind = "lines"
    THEN ExtractFromLines(content.lines)
    ELSE [raised |-> TRUE, value |-> None]

\* JsonReport.extract_json
JsonReport_extract_json(content) ==
    IF content.kind \in {"object", "array"}
    THEN [raised |-> FALSE, value |-> content]
    ELSE [raised |-> TRUE, value |-> None]

(***************************************************************************)
(* BasecallsMetadata                                                       *)
(***************************************************************************)
\* BasecallsMetadata.__init__
BasecallsMetadata ==
    [html_json_data |-> None,
     json_data |-> None,
     flow_cell_id |-> None,
     flow_cell_type |-> None,
     kit |-> None,
     basecalling |-> None,
     modified_basecalling |-> None,
     modifications |-> None,
     trim_barcodes |-> None,
     software_versions |-> None,
     basecalling_model |-> None,
     basecalling_config |-> None]

\* the section's items all have the keys the comprehension reads
SectionReadable(json_data, name) ==
    /\ HasKey(json_data, name)
    /\ \A i \in 1..Len(json_data[name]) :
          HasKey(json_data[name][i], "title") /\ HasKey(json_data[name][i], "value")

\* BasecallsMetadata._extract_section: a later item with the same key wins
_extract_section(json_data, name) ==
    LET items == json_data[name]
        keys == {NormalizeTitle(items[i].title) : i \in 1..Len(items)}
        last(k) == CHOOSE i \in 1..Len(items) :
                      /\ NormalizeTitle(items[i].title) = k
                      /\ \A j \in (i + 1)..Len(items) : NormalizeTitle(items[j].title) # k
    IN  [k \in keys |-> items[last(k)].value]

\* BasecallsMetadata._fetch_item
_fetch_item(data, name) == IF HasKey(data, name) THEN Some(data[name]) ELSE None

\* the "modifications" loop as it would be with the two names the other way
\* round
FetchModifications_ContextFirst(settings) ==
    IF Truthy(_fetch_item(settings, "modified_base_context"))
    THEN _fetch_item(settings, "modified_base_context")
    ELSE _fetch_item(settings, "modifications")

\* the "modifications" loop of load_from_report_html
FetchModifications(settings) ==
    IF Truthy(_fetch_item(settings, "modifications"))
    THEN _fetch_item(settings, "modifications")
    ELSE _fetch_item(settings, "modified_base_context")

\* the assignments of load_from_report_html from the three extracted
\* sections, each in turn, stopping at the first KeyError
AssignHtmlFields(self, setup, settings, versions) ==
    IF ~HasKey(setup, "flow_cell_id")
        THEN [raised |-> TRUE, self |-> self]
    ELSE IF ~HasKey(setup, "flow_cell_type")
        THEN [raised |-> TRUE,
              self |-> [self EXCEPT !.flow_cell_id = Some(setup["flow_cell_id"])]]
    ELSE IF ~HasKey(setup, "kit_type")
        THEN [raised |-> TRUE,
              self |-> [self EXCEPT !.flow_cell_id = Some(setup["flow_cell_id"]),
                                    !.flow_cell_type = Some(setup["flow_cell_type"])]]
    ELSE IF ~HasKey(settings, "basecalling")
        THEN [raised |-> TRUE,
              self |-> [self EXCEPT !.flow_cell_id = Some(setup["flow_cell_id"]),
                                    !.flow_cell_type = Some(setup["flow_cell_type"]),
                                    !.kit = Some(setup["kit_type"])]]
    ELSE IF ~HasKey(settings, "modified_basecalling")
        THEN [raised |-> TRUE,
              self |-> [self EXCEPT !.flow_cell_id = Some(setup["flow_cell_id"]),
                                    !.flow_cell_type = Some(setup["flow_cell_type"]),
                                    !.kit = Some(setup["kit_type"]),
                                    !.basecalling = Some(settings["basecalling"])]]
    ELSE [raised |-> FALSE,
          self |-> [self EXCEPT
              !.flow_cell_id = Some(setup["flow_cell_id"]),
              !.flow_cell_type = Some(setup["flow_cell_type"]),
              !.kit = Some(setup["kit_type"]),
              !.basecalling = Some(settings["basecalling"]),
              !.modified_basecalling = Some(settings["modified_basecalling"]),
              !.modifications = IF settings["modified_basecalling"] = "On"
                                THEN FetchModifications(settings)
                                ELSE None,
              !.trim_barcodes = _fetch_item(settings, "trim_barcodes"),
              !.software_versions = Some(versions)]]

\* load_from_report_html from the result of extract_json on: nothing is
\* assigned when that raised, html_json_data alone when a section cannot be
\* extracted
LoadHtmlFields(self, extracted) ==
    IF extracted.raised
        THEN [raised |-> TRUE, self |-> self]
    ELSE IF \E name \in {"run_settings", "run_setup", "software_versions"} :
               ~SectionReadable(extracted.value, name)
        THEN [raised |-> TRUE,
              self |-> [self EXCEPT !.html_json_data = Some(extracted.value)]]
    ELSE AssignHtmlFields([self EXCEPT !.html_json_data = Some(extracted.value)],
                          _extract_section(extracted.value, "run_setup"),
                          _extract_section(extracted.value, "run_settings"),
                          _extract_section(extracted.value, "software_versions"))

\* load_from_report_html as it would be if it started from a fresh record
load_from_report_html_Reset(self, content) ==
    IF HtmlReport_extract_json(content).raised
    THEN [raised |-> TRUE, self |-> self]
    ELSE LoadHtmlFields(BasecallsMetadata, HtmlReport_extract_json(content))

\* BasecallsMetadata.load_from_report_html
load_from_report_html(self, content) ==
    LoadHtmlFields(self, HtmlReport_extract_json(content))

\* acquisition["acquisition_run_info"]["config_summary"][key], None on KeyError
ConfigSummaryItem(acquisition, key) ==
    IF /\ HasKey(acquisition, "acquisition_run_info")
       /\ HasKey(acquisition["acquisition_run_info"], "config_summary")
       /\ HasKey(acquisition["acquisition_run_info"]["config_summary"], key)
    THEN Some(acquisition["acquisition_run_info"]["config_summary"][key])
    ELSE None

\* the loop body as it would be without the two "if not self...." tests
LoadAcquisition_Unguarded(self, acquisition) ==
    LET model == ConfigSummaryItem(acquisition, "basecalling_model_version")
        config == ConfigSummaryItem(acquisition, "basecalling_config_filename")
        m1 == IF model # None THEN [self EXCEPT !.basecalling_model = model] ELSE self
    IN  IF config # None THEN [m1 EXCEPT !.basecalling_config = config] ELSE m1

\* the loop body as it would be if the two tests were "is None"
LoadAcquisition_IfNone(self, acquisition) ==
    LET model == ConfigSummaryItem(acquisition, "basecalling_model_version")
        config == ConfigSummaryItem(acquisition, "basecalling_config_filename")
        m1 == IF self.basecalling_model = None /\ model # None
              THEN [self EXCEPT !.basecalling_model = model]
              ELSE self
    IN  IF m1.basecalling_config = None /\ config # None
        THEN [m1 EXCEPT !.basecalling_config = config]
        ELSE m1

\* one pass of the loop body of load_from_report_json
LoadAcquisition(self, acquisition) ==
    LET model == ConfigSummaryItem(acquisition, "basecalling_model_version")
        config == ConfigSummaryItem(acquisition, "basecalling_config_filename")
        m1 == IF ~Truthy(self.basecalling_model) /\ model # None
              THEN [self EXCEPT !.basecalling_model = model]
              ELSE self
    IN  IF ~Truthy(m1.basecalling_config) /\ config # None
        THEN [m1 EXCEPT !.basecalling_config = config]
        ELSE m1

RECURSIVE LoadAcquisitions(_, _)
LoadAcquisitions(self, acquisitions) ==
    IF acquisitions = <<>> THEN self
    ELSE LoadAcquisitions(LoadAcquisition(self, Head(acquisitions)), Tail(acquisitions))

\* load_from_report_json as it would be without the outer "except KeyError"
load_from_report_json_KeyErrorRaised(self, content) ==
    LET extracted == JsonReport_extract_json(content)
        m0 == [self EXCEPT !.json_data = Some(content)]
    IN  IF extracted.raised THEN [raised |-> TRUE, self |-> self]
        ELSE IF content.kind = "array" THEN [raised |-> TRUE, self |-> m0]
        ELSE IF ~HasKey(content.value, "acquisitions") THEN [raised |-> TRUE, self |-> m0]
        ELSE [raised |-> FALSE,
              self |-> LoadAcquisitions(m0, content.value["acquisitions"])]

\* BasecallsMetadata.load_from_report_json
load_from_report_json(self, content) ==
    LET extracted == JsonReport_extract_json(content)
        m0 == [self EXCEPT !.json_data = Some(content)]
    IN  IF extracted.raised THEN [raised |-> TRUE, self |-> self]
        ELSE IF content.kind = "array" THEN [raised |-> TRUE, self |-> m0]
        ELSE IF ~HasKey(content.value, "acquisitions") THEN [raised |-> FALSE, self |-> m0]
        ELSE [raised |-> FALSE,
              self |-> LoadAcquisitions(m0, content.value["acquisitions"])]

\* load_from_report as it would be if a file of another type were read as
\* an HTML report
load_from_report_HtmlByDefault(self, report_file) ==
    IF EndsWith(report_file.name, ".json")
        THEN load_from_report_json(self, report_file.content)
    ELSE load_from_report_html(self, report_file.content)

\* BasecallsMetadata.load_from_report
load_from_report(self, report_file) ==
    IF EndsWith(report_file.name, ".html")
        THEN load_from_report_html(self, report_file.content)
    ELSE IF EndsWith(report_file.name, ".json")
        THEN load_from_report_json(self, report_file.content)
    ELSE [raised |-> TRUE, self |-> self]

(***************************************************************************)
(* The filesystem under the project directory                              *)
(***************************************************************************)
isdir(path) == path \in DOMAIN tree

isfile(path) ==
    /\ dirname(path) \in DOMAIN files
    /\ \E i \in 1..Len(files[dirname(path)]) : files[dirname(path)][i].name = basename(path)

exists(path) == isdir(path) \/ isfile(path)

\* os.listdir(path) with what each entry holds: the regular files, then the
\* child directories (no directory of the model has a name the callers act on)
listdir(path) ==
    files[path] \o [i \in 1..Len(tree[path]) |->
                       [name |-> tree[path][i], content |-> [kind |-> "directory"]]]

\* os.walk(top): the directories it visits, each listing taken from the filesystem
RECURSIVE walk(_)
walk(top) ==
    IF ~isdir(top) THEN {}
    ELSE {top} \cup UNION {walk(join(top, tree[top][i])) : i \in 1..Len(tree[top])}

(***************************************************************************)
(* FlowCell and BasecallsDir                                               *)
(***************************************************************************)
\* the body of "for f in os.listdir(self.path)" of either class, on
\* [reports, sample_sheet, metadata]; a load that raises is reported and
\* ignored, and what it had assigned before raising stays
ListEntry(acc, f) ==
    IF StartsWith(f.name, "report_")
    THEN [acc EXCEPT
             !.reports = Append(@, f.name),
             !.metadata =
                 IF EndsWith(f.name, ".html") \/ EndsWith(f.name, ".json")
                 THEN load_from_report(@, f).self
                 ELSE @]
    ELSE IF StartsWith(f.name, "sample_sheet_")
    THEN [acc EXCEPT !.sample_sheet = Some(f.name)]
    ELSE acc

RECURSIVE ListEntries(_, _)
ListEntries(acc, entries) ==
    IF entries = <<>> THEN acc
    ELSE ListEntries(ListEntry(acc, Head(entries)), Tail(entries))

\* the reports, sample sheet and metadata an entity takes from its directory
ReadReports(path) ==
    ListEntries([reports |-> <<>>, sample_sheet |-> None, metadata |-> BasecallsMetadata],
                listdir(path))

\* the run as it would be if only the run directory were compared with the
\* project directory
FlowCellRun_OnlyRunDir(path, project_dir_arg) ==
    LET pool_dir == dirname(path)
        run_dir == dirname(pool_dir)
    IN  IF project_dir_arg # None /\ project_dir_arg[1] = run_dir
        THEN None
        ELSE Some(basename(run_dir))

\* the run as it would be if it were left unset when no project directory
\* is given
FlowCellRun_UnsetWithoutProject(path, project_dir_arg) ==
    LET pool_dir == dirname(path)
        run_dir == dirname(pool_dir)
    IN  IF project_dir_arg = None \/ project_dir_arg[1] \in {pool_dir, run_dir}
        THEN None
        ELSE Some(basename(run_dir))

\* FlowCell.__init__: the run assigned
FlowCellRun(path, project_dir_arg) ==
    LET pool_dir == dirname(path)
        run_dir == dirname(pool_dir)
    IN  IF project_dir_arg # None /\ project_dir_arg[1] \in {pool_dir, run_dir}
        THEN None
        ELSE Some(basename(run_dir))

\* FlowCell.__init__: self.pod5, the first of pod5 and pod5_pass that exists
FlowCellPod5(path) ==
    IF exists(join(path, "pod5")) THEN Some(join(path, "pod5"))
    ELSE IF exists(join(path, "pod5_pass")) THEN Some(join(path, "pod5_pass"))
    ELSE None

\* FlowCell.__init__(path, project_dir): project_dir_arg is None or
\* Some(path); reports, sample_sheet and metadata come from ReadReports
FlowCell(path, project_dir_arg) ==
    IF ~is_flow_cell_name(basename(path))
    THEN [raised |-> TRUE, self |-> None]
    ELSE [raised |-> FALSE,
          self |-> Some(
              [path |-> path,
               name |-> basename(path),
               project_dir |-> project_dir_arg,
               pool |-> basename(dirname(path)),
               run |-> FlowCellRun(path, project_dir_arg),
               id |-> get_flow_cell_id(basename(path)),
               datestamp |-> get_flow_cell_datestamp(basename(path)),
               pod5 |-> FlowCellPod5(path),
               bam_pass |-> IF exists(join(path, "bam_pass"))
                            THEN Some(join(path, "bam_pass")) ELSE None,
               fastq_pass |-> IF exists(join(path, "fastq_pass"))
                              THEN Some(join(path, "fastq_pass")) ELSE None]
              @@ ReadReports(path))]

\* BasecallsDir.__init__(path, pool, run); reports, sample_sheet and metadata
\* come from ReadReports
BasecallsDir(path, pool, run) ==
    [path |-> path,
     name |-> basename(path),
     parent |-> basename(dirname(path)),
     pool |-> pool,
     run |-> run,
     pass_dir |-> IF exists(join(path, "pass")) THEN Some(join(path, "pass")) ELSE None]
    @@ ReadReports(path)

(***************************************************************************)
(* ProjectDir                                                              *)
(***************************************************************************)
\* "for d in dirs" of ProjectDir.__init__: which set the walked directory
\* joins, decided by the first child that matches either test
RECURSIVE ClassifyDirs(_)
ClassifyDirs(dirs) ==
    IF dirs = <<>> THEN "none"
    ELSE IF Head(dirs) = "pass" THEN "basecalls"
    ELSE IF Head(dirs) = "pod5" \/ EndsWith(Head(dirs), "_pass") THEN "flow_cell"
    ELSE ClassifyDirs(Tail(dirs))

\* the walk of ProjectDir.__init__: the sets flow_cell_dirs and basecalls_dirs
Locate(path) ==
    [flow_cell_dirs |-> {root \in walk(path) : ClassifyDirs(tree[root]) = "flow_cell"},
     basecalls_dirs |-> {root \in walk(path) : ClassifyDirs(tree[root]) = "basecalls"}]

\* sorted(list, key=lambda x: x.name): stable, so an element goes in after
\* every element whose name is not greater
RECURSIVE InsertByName(_, _)
InsertByName(sorted, x) ==
    IF sorted = <<>> THEN <<x>>
    ELSE IF StrLess(x.name, Head(sorted).name) THEN <<x>> \o sorted
    ELSE <<Head(sorted)>> \o InsertByName(Tail(sorted), x)

\* the list as it would be left without the sort
SortedByName_Unsorted(list) == list

RECURSIVE SortedByName(_)
SortedByName(list) ==
    IF list = <<>> THEN <<>>
    ELSE InsertByName(SortedByName(SubSeq(list, 1, Len(list) - 1)), list[Len(list)])

\* the loop as it would be if a directory with a bad name were skipped
MakeFlowCells_SkipBad(dirs, project_path) ==
    LET Good(d) == is_flow_cell_name(basename(d))
        kept == SelectSeq(dirs, Good)
    IN  [raised |-> FALSE,
         list |-> [i \in 1..Len(kept) |-> FlowCell(kept[i], Some(project_path)).self[1]]]

\* self.flow_cells.append(fc): fc is what the constructor gave and rest what
\* the loop gives for the directories after it
AppendFlowCell(fc, rest) ==
    IF fc.raised \/ rest.raised
    THEN [raised |-> TRUE, list |-> <<>>]
    ELSE [raised |-> FALSE, list |-> <<fc.self[1]>> \o rest.list]

\* "for d in flow_cell_dirs": the FlowCell objects in the set's iteration
\* order, or that one of the constructors raised
RECURSIVE MakeFlowCells(_, _)
MakeFlowCells(dirs, project_path) ==
    IF dirs = <<>> THEN [raised |-> FALSE, list |-> <<>>]
    ELSE AppendFlowCell(FlowCell(Head(dirs), Some(project_path)),
                        MakeFlowCells(Tail(dirs), project_path))

\* the loop as it would be without its break: the last matching flow cell
\* supplies pool and run
MatchPool_LastMatch(d, flow_cells) ==
    LET hits == {i \in 1..Len(flow_cells) : flow_cells[i].pool \in Range(split(d))}
        last == CHOOSE i \in hits : \A j \in hits : j <= i
    IN  IF hits = {} THEN <<>>
        ELSE <<BasecallsDir(d, Some(flow_cells[last].pool), flow_cells[last].run)>>

\* "for fc in self.flow_cells" for the basecalls directory d: the
\* BasecallsDir objects it appends
RECURSIVE MatchPool(_, _)
MatchPool(d, flow_cells) ==
    IF flow_cells = <<>> THEN <<>>
    ELSE IF Head(flow_cells).pool \in Range(split(d))
         THEN <<BasecallsDir(d, Some(Head(flow_cells).pool), Head(flow_cells).run)>>
    ELSE MatchPool(d, Tail(flow_cells))

\* "for d in basecalls_dirs", in the set's iteration order
RECURSIVE MakeBasecallsDirs(_, _)
MakeBasecallsDirs(dirs, flow_cells) ==
    IF dirs = <<>> THEN <<>>
    ELSE MatchPool(Head(dirs), flow_cells) \o MakeBasecallsDirs(Tail(dirs), flow_cells)

\* ProjectDir.__init__ from line 78 on: made is what the loop over
\* flow_cell_dirs gave
SortAndMatch(path, made, bc_order) ==
    IF made.raised
    THEN [status |-> "raised", path |-> path, name |-> basename(path),
          flow_cells |-> <<>>, basecalls_dirs |-> <<>>]
    ELSE [status |-> "built", path |-> path, name |-> basename(path),
          flow_cells |-> SortedByName(made.list),
          basecalls_dirs |->
              SortedByName(MakeBasecallsDirs(bc_order, SortedByName(made.list)))]

\* ProjectDir.__init__(path); fc_order and bc_order are the orders in which
\* the two sets are iterated
ProjectDir(path, fc_order, bc_order) ==
    SortAndMatch(path, MakeFlowCells(fc_order, path), bc_order)

(***************************************************************************)
(* Inputs: directory names, the directories a project may hold, reports    *)
(***************************************************************************)
RUN == "PG1-4_20240513"

POOL_A == "PG1-2"

POOL_B == "PG3-4"

REBASECALLING == "Rebasecalling"

FC_A == "20240513_0829_1A_PAW15419_465bb23f"

FC_B == "20240513_0829_1B_PAW15451_20b55ef2"

PROJECT_DIR == <<"data", "PromethION_Project_001_PerGynt">>

\* the directories that may be made, relative to the project directory:
\* flow cells three, two and one level down, a re-basecalling directory, and
\* directories that hold both kinds of marker
Layout ==
    {<<RUN>>,
     <<RUN, POOL_A>>,
     <<RUN, POOL_A, FC_A>>,
     <<RUN, POOL_A, FC_A, "pod5">>,
     <<RUN, POOL_A, FC_A, "bam_pass">>,
     <<RUN, POOL_A, FC_A, "fastq_pass">>,
     <<RUN, POOL_A, FC_A, "pass">>,
     <<RUN, POOL_A, "pass">>,
     <<RUN, REBASECALLING>>,
     <<RUN, REBASECALLING, POOL_A>>,
     <<RUN, REBASECALLING, POOL_A, "pass">>,
     <<RUN, REBASECALLING, POOL_A, "bam_pass">>,
     <<POOL_B>>,
     <<POOL_B, FC_B>>,
     <<POOL_B, FC_B, "fastq_pass">>,
     <<FC_B>>,
     <<FC_B, "pod5">>}

Item(title, value) == [title |-> title, value |-> value]

HTML_JSON_DATA_24 ==
    [run_setup |-> <<Item("Flow cell type", "FLO-PRO114M"),
                     Item("Flow cell type alias", "FLO-PRO114M"),
                     Item("Flow cell ID", "PAW15677"),
                     Item("Kit type", "SQK-RBK114-24")>>,
     run_settings |-> <<Item("Pore scan freq.", "1.5 hrs"),
                        Item("Basecalling", "Super-accurate basecalling, 400 bps"),
                        Item("Modified basecalling", "On"),
                        Item("Modified base context", "5mC & 5hmC"),
                        Item("Trim barcodes", "Off")>>,
     software_versions |-> <<Item("MinKNOW", "24.02.19"),
                             Item("MinKNOW Core", "5.9.12")>>]

HTML_JSON_DATA_25 ==
    [run_setup |-> <<Item("Flow cell type", "FLO-PRO114M"),
                     Item("Flow cell type alias", "FLO-PRO114M"),
                     Item("Flow cell ID", "PBC32212"),
                     Item("Kit type", "SQK-PCB114-24")>>,
     run_settings |-> <<Item("Pore scan freq.", "1.5 hrs"),
                        Item("Basecalling", "High-accuracy model 400bps"),
                        Item("Modified basecalling", "Off"),
                        Item("Trim barcodes", "Off")>>,
     software_versions |-> <<Item("MinKNOW", "25.03.7"),
                             Item("MinKNOW Core", "6.4.8")>>]

\* a document with one item of a section left out, and with a section left out
DropItem(doc, section, i) == [doc EXCEPT ![section] = RemoveAt(@, i)]

DropSection(doc, section) == [k \in DOMAIN doc \ {section} |-> doc[k]]

TextLine(text) == [text |-> text, json |-> None, tail |-> ""]

\* the file create_html_report writes: an empty line, then the marker line
HtmlReportContent(doc) ==
    [kind |-> "lines",
     lines |-> <<TextLine("\n"),
                 [text |-> MARKER_REPORT_DATA_JSON, json |-> Some(doc), tail |-> ";\n"]>>]

\* a report of the other generation: "const reportData=" and no semicolon
HtmlReportDataContent(doc) ==
    [kind |-> "lines",
     lines |-> <<TextLine("<script>\n"),
                 [text |-> "  " \o MARKER_REPORT_DATA, json |-> Some(doc), tail |-> "\n"]>>]

\* an HTML file with no embedded JSON
HtmlNoMarkerContent ==
    [kind |-> "lines", lines |-> <<TextLine("<html>\n"), TextLine("</html>\n")>>]

ConfigSummary(summary) == [acquisition_run_info |-> [config_summary |-> summary]]

MODEL_HAC == "dna_r10.4.1_e8.2_400bps_hac@v4.3.0"

MODEL_SUP == "dna_r10.4.1_e8.2_400bps_sup@v4.3.0"

CONFIG_HAC == "dna_r10.4.1_e8.2_400bps_5khz_modbases_5hmc_5mc_cg_hac.cfg"

JsonObject(value) == [kind |-> "object", value |-> value]

\* JSON reports: both items in one acquisition; the model alone; items only
\* in a later acquisition; another model; an empty model; no acquisitions; a
\* list; no JSON
JSON_DATA_24 ==
    JsonObject([acquisitions |->
        <<ConfigSummary([basecalling_model_version |-> MODEL_HAC,
                         basecalling_config_filename |-> CONFIG_HAC])>>])

JSON_DATA_25 ==
    JsonObject([acquisitions |->
        <<ConfigSummary([basecalling_model_version |-> MODEL_HAC])>>])

JSON_DATA_LATER ==
    JsonObject([acquisitions |->
        <<[acquisition_run_info |-> [purpose |-> "calibration"]],
          ConfigSummary([basecalling_model_version |-> MODEL_SUP]),
          ConfigSummary([basecalling_model_version |-> MODEL_HAC,
                         basecalling_config_filename |-> CONFIG_HAC])>>])

JSON_DATA_SUP ==
    JsonObject([acquisitions |->
        <<ConfigSummary([basecalling_model_version |-> MODEL_SUP])>>])

JSON_DATA_EMPTY_MODEL ==
    JsonObject([acquisitions |->
        <<ConfigSummary([basecalling_model_version |-> ""])>>])

JSON_DATA_NO_ACQUISITIONS == JsonObject([protocol_run_info |-> "none"])

JSON_DATA_ARRAY == [kind |-> "array", value |-> <<>>]

JSON_DATA_GARBAGE == [kind |-> "garbage"]

File(name, content) == [name |-> name, content |-> content]

\* the embedded documents of the HTML reports handed to a BasecallsMetadata
HtmlDocuments ==
    {HTML_JSON_DATA_24, HTML_JSON_DATA_25}
    \cup {DropItem(HTML_JSON_DATA_25, "run_setup", i) :
             i \in 1..Len(HTML_JSON_DATA_25.run_setup)}
    \cup {DropItem(HTML_JSON_DATA_24, "run_settings", i) :
             i \in 1..Len(HTML_JSON_DATA_24.run_settings)}
    \cup {DropSection(HTML_JSON_DATA_25, "software_versions")}

\* the report files handed to BasecallsMetadata.load_from_report
ReportFiles ==
    {File("report_BLAH.html", HtmlReportContent(doc)) : doc \in HtmlDocuments}
    \cup {File("report_BLAH.html", HtmlReportDataContent(HTML_JSON_DATA_24)),
          File("report_BLAH.html", HtmlNoMarkerContent),
          File("report_BLAH.md", HtmlReportContent(HTML_JSON_DATA_25)),
          File("report_BLAH.txt", JSON_DATA_24),
          File("report_BLAH.html", JSON_DATA_24),
          File("report_BLAH.json", HtmlReportContent(HTML_JSON_DATA_25))}
    \cup {File("report_BLAH.json", content) :
             content \in {JSON_DATA_24, JSON_DATA_25, JSON_DATA_LATER, JSON_DATA_SUP,
                          JSON_DATA_EMPTY_MODEL, JSON_DATA_NO_ACQUISITIONS,
                          JSON_DATA_ARRAY, JSON_DATA_GARBAGE}}

\* run settings with "Modified basecalling" on or off and the given items
\* about the modifications
ModificationSettings(switch, items) ==
    <<Item("Basecalling", "Super-accurate basecalling, 400 bps"),
      Item("Modified basecalling", switch)>>
    \o items \o <<Item("Trim barcodes", "Off")>>

\* "Modifications" and "Modified base context" items: none, either, both in
\* either order, and with an empty value
ModificationItems ==
    {<<>>,
     <<Item("Modifications", "6mA")>>,
     <<Item("Modified base context", "5mC & 5hmC")>>,
     <<Item("Modifications", "6mA"), Item("Modified base context", "5mC & 5hmC")>>,
     <<Item("Modified base context", "5mC & 5hmC"), Item("Modifications", "6mA")>>,
     <<Item("Modifications", "")>>,
     <<Item("Modifications", ""), Item("Modified base context", "5mC & 5hmC")>>,
     <<Item("Modifications", "6mA"), Item("Modified base context", "")>>}

ModificationDocuments ==
    {[HTML_JSON_DATA_24 EXCEPT !.run_settings = ModificationSettings(switch, items)] :
        switch \in {"On", "Off"}, items \in ModificationItems}

CONFIG_SUP == "dna_r10.4.1_e8.2_400bps_5khz_sup.cfg"

\* a config_summary with any of the two items left out, empty or filled in
ConfigSummaries ==
    {[k \in keys |-> IF k = "basecalling_model_version" THEN model ELSE config] :
        keys \in SUBSET {"basecalling_model_version", "basecalling_config_filename"},
        model \in {"", MODEL_HAC, MODEL_SUP},
        config \in {"", CONFIG_HAC, CONFIG_SUP}}

\* acquisitions with and without a config_summary
Acquisitions ==
    {[acquisition_run_info |-> [purpose |-> "calibration"]]}
    \cup {ConfigSummary(summary) : summary \in ConfigSummaries}

\* the most acquisitions in a JSON report
MaxAcquisitions == 2

AcquisitionLists == UNION {[1..n -> Acquisitions] : n \in 0..MaxAcquisitions}

\* titles of the mock reports' items: plain, and with spaces, a hyphen, a
\* period
Titles ==
    {"MinKNOW", "MinKNOW Core", "Min Q score", "Mid-read barcode filtering",
     "Pore scan freq."}

\* documents whose "software_versions" section has one or two items with
\* those titles
TitleDocuments ==
    {[HTML_JSON_DATA_25 EXCEPT !.software_versions = <<Item(title, title \o " 1")>>] :
        title \in Titles}
    \cup {[HTML_JSON_DATA_25 EXCEPT
              !.software_versions = <<Item(first, first \o " 1"), Item(second, second \o " 2")>>] :
              first \in Titles, second \in Titles}

\* lines with a JSON object after either marker, with and without a
\* semicolon after it, indented or not
MarkerLines ==
    {[text |-> indent \o marker, json |-> Some(doc), tail |-> tail] :
        indent \in {"", "  "},
        marker \in {MARKER_REPORT_DATA_JSON, MARKER_REPORT_DATA},
        doc \in {HTML_JSON_DATA_24, HTML_JSON_DATA_25},
        tail \in {";\n", "\n"}}

\* HTML files with one marker line, with two, and with a line that has a
\* marker and no JSON object
MarkerContents ==
    {[kind |-> "lines", lines |-> <<TextLine("<script>\n"), line>>] :
        line \in MarkerLines}
    \cup {[kind |-> "lines", lines |-> <<first, second>>] :
              first \in {l \in MarkerLines : l.text = MARKER_REPORT_DATA_JSON
                                               \/ l.text = MARKER_REPORT_DATA},
              second \in {l \in MarkerLines : l.text = MARKER_REPORT_DATA_JSON
                                                \/ l.text = MARKER_REPORT_DATA}}
    \cup {HtmlNoMarkerContent,
          [kind |-> "lines",
           lines |-> <<TextLine(MARKER_REPORT_DATA_JSON \o "null;\n"),
                       TextLine("// " \o MARKER_REPORT_DATA \o "{};\n")>>]}

\* report files that differ in one detail of their content
VariantFiles ==
    {File("report_BLAH.html", HtmlReportContent(doc)) :
        doc \in ModificationDocuments \cup TitleDocuments}
    \cup {File("report_BLAH.html", content) : content \in MarkerContents}
    \cup {File("report_BLAH.json", JsonObject([acquisitions |-> list])) :
              list \in AcquisitionLists}

\* names handed to is_flow_cell_name: five tokens joined by "_", each token
\* as in a flow cell name or off it in length, case or letters, with
\* something before or after; and names of other shapes
FlowCellNames ==
    {beginning \o datestamp \o "_" \o time \o "_" \o position \o "_" \o id \o "_"
        \o hash \o ending :
        beginning \in {"", " "},
        datestamp \in {"20240513", "2024051", "2O240513", ""},
        time \in {"0829", "829", "08:29"},
        position \in {"1A", "1a", "A1", "11A"},
        id \in {"PAW15419", "XAW15419", "PAW", "PA15419", "PaW15419", "PAWW1"},
        hash \in {"465bb23f", "465BB23F", ""},
        ending \in {"", "\n", "\n\n", "_x"}}
    \cup {"", RUN, POOL_A, REBASECALLING, "20240513_0829_1A_PAW15419",
          "20240513-0829-1A-PAW15419-465bb23f", "20240513_0829_1A_PAW15419_465bb23f_"}

\* the report files a scanned directory may hold
ScanFiles ==
    {File("report_" \o FC_A \o ".html", HtmlReportContent(HTML_JSON_DATA_25)),
     File("report_broken.html", HtmlNoMarkerContent),
     File("report_" \o FC_A \o ".json", JSON_DATA_24),
     File("report_broken.json", JSON_DATA_GARBAGE)}

\* the most filesystem entries (directories and files) under a project directory
MaxEntries == 7

\* the most load_from_report calls on one BasecallsMetadata
MaxLoads == 2

(***************************************************************************)
(* The scan of a project directory: a tree of directories and report       *)
(* files grows under PROJECT_DIR, then ProjectDir(PROJECT_DIR) scans it    *)
(***************************************************************************)
NoProject ==
    [status |-> "none", path |-> <<>>, name |-> "",
     flow_cells |-> <<>>, basecalls_dirs |-> <<>>]

InitMetadata ==
    /\ metadata = BasecallsMetadata
    /\ loaded = <<>>
    /\ last_load = "none"

InitFilesystem ==
    /\ project_dir = PROJECT_DIR
    /\ tree = [d \in {PROJECT_DIR} |-> <<>>]
    /\ files = [d \in {PROJECT_DIR} |-> <<>>]
    /\ located = [flow_cell_dirs |-> {}, basecalls_dirs |-> {}]
    /\ project = NoProject

\* no FlowCell was constructed outside a scan
NoFlowCell == [status |-> "none", path |-> <<>>, self |-> None]

\* none of the three name functions was called
NoAnswer ==
    [is_flow_cell_name |-> None, get_flow_cell_id |-> None,
     get_flow_cell_datestamp |-> None]

\* cli.info exported nothing
NoRecord == <<>>

\* no ProjectAnalysisDir, FlowcellBasecallsInfo, cli.setup or cli.fetch yet
InitCli ==
    /\ record = NoRecord
    /\ analysis_dir = <<>>
    /\ outcome = <<>>
    /\ basecalls_info = <<>>
    /\ samples_csv = <<>>
    /\ fetched = <<>>

InitCalls ==
    /\ flow_cell = NoFlowCell
    /\ fc_name = ""
    /\ answer = NoAnswer

Init == InitFilesystem /\ InitMetadata /\ InitCalls /\ InitCli

\* how many directories and files there are under the project directory
Entries ==
    LET dirs == DOMAIN tree \ {project_dir}
        count[S \in SUBSET DOMAIN files] ==
            IF S = {} THEN 0
            ELSE LET d == CHOOSE x \in S : TRUE
                 IN  Len(files[d]) + count[S \ {d}]
    IN  Cardinality(dirs) + count[DOMAIN files]

\* Path.mkdir: the new directory turns up anywhere in its parent's listing
mkdir(parent, dir_name) ==
    /\ project.status = "none"
    /\ flow_cell.status = "none"
    /\ Entries < MaxEntries
    /\ isdir(parent)
    /\ ~exists(join(parent, dir_name))
    /\ \E i \in 1..(Len(tree[parent]) + 1) :
          tree' = [d \in DOMAIN tree \cup {join(parent, dir_name)} |->
                      IF d = join(parent, dir_name) THEN <<>>
                      ELSE IF d = parent THEN InsertAt(tree[parent], i, dir_name)
                      ELSE tree[d]]
    /\ files' = [d \in DOMAIN files \cup {join(parent, dir_name)} |->
                    IF d = join(parent, dir_name) THEN <<>> ELSE files[d]]
    /\ UNCHANGED <<project_dir, located, project, meta_vars, flow_cell, name_vars, cli_vars>>

\* a report file is written into a directory that has data directories
write_report(dir, file) ==
    /\ project.status = "none"
    /\ flow_cell.status = "none"
    /\ Entries < MaxEntries
    /\ isdir(dir)
    /\ ClassifyDirs(tree[dir]) # "none"
    /\ ~exists(join(dir, file.name))
    /\ \E i \in 1..(Len(files[dir]) + 1) :
          files' = [files EXCEPT ![dir] = InsertAt(@, i, file)]
    /\ UNCHANGED <<project_dir, tree, located, project, meta_vars, flow_cell, name_vars, cli_vars>>

\* project = ProjectDir(project_dir)
Scan ==
    /\ project.status = "none"
    /\ located' = Locate(project_dir)
    /\ \E fc_order \in Orderings(Locate(project_dir).flow_cell_dirs) :
       \E bc_order \in Orderings(Locate(project_dir).basecalls_dirs) :
          project' = ProjectDir(project_dir, fc_order, bc_order)
    /\ UNCHANGED <<project_dir, tree, files, meta_vars, flow_cell, name_vars, cli_vars>>

Next ==
    \/ \E rel \in Layout :
          mkdir(project_dir \o dirname(rel), basename(rel))
    \/ \E dir \in DOMAIN tree : \E file \in ScanFiles : write_report(dir, file)
    \/ Scan

Spec == Init /\ [][Next]_vars

(***************************************************************************)
(* A BasecallsMetadata object and the reports loaded into it               *)
(***************************************************************************)
\* metadata.load_from_report(file), the caller catching what it raises
Load(file) ==
    /\ Len(loaded) < MaxLoads
    /\ metadata' = load_from_report(metadata, file).self
    /\ last_load' = IF load_from_report(metadata, file).raised THEN "raised" ELSE "returned"
    /\ loaded' = Append(loaded, file)
    /\ UNCHANGED <<scan_vars, flow_cell, name_vars, cli_vars>>

MetaNext == \E file \in ReportFiles : Load(file)

MetaSpec == Init /\ [][MetaNext]_vars

\* one call on a new BasecallsMetadata, for the reports that differ in one
\* detail
\* utils.fmt_value: "?" for None, any other value as it is
fmt_value(value) == IF value = None THEN "?" ELSE value[1]

\* utils.fmt_yes_no: "no" for None, "yes" for anything else
fmt_yes_no(value) == IF value = None THEN "no" ELSE "yes"

\* the modifications of cli.info as they would be if anything but "On" gave
\* "none"
InfoModifications_NoneUnlessOn(self) ==
    IF self.modified_basecalling # Some("On")
    THEN "none"
    ELSE fmt_value(self.modifications)

\* cli.info: modifications = ("none" if ... == "Off" else fmt_value(...))
InfoModifications(self) ==
    IF self.modified_basecalling = Some("Off")
    THEN "none"
    ELSE fmt_value(self.modifications)

\* cli.info: software_versions["minknow"], "?" on TypeError or KeyError
InfoMinknowVersion(self) ==
    IF self.software_versions = None THEN "?"
    ELSE IF ~HasKey(self.software_versions[1], "minknow") THEN "?"
    ELSE self.software_versions[1]["minknow"]

\* cli.info: the model, the config when there is no model
InfoBasecallingModel(self) ==
    IF self.basecalling_model = None
    THEN fmt_value(self.basecalling_config)
    ELSE fmt_value(self.basecalling_model)

\* cli.info: the fields of a printed line that come from the metadata
InfoRecord(self) ==
    [flow_cell_id |-> fmt_value(self.flow_cell_id),
     kit |-> fmt_value(self.kit),
     modifications |-> InfoModifications(self),
     trim_barcodes |-> fmt_value(self.trim_barcodes),
     minknow_version |-> InfoMinknowVersion(self),
     basecalling_model |-> InfoBasecallingModel(self)]

\* cli.info makes the record of a flow cell or basecalls directory whose
\* metadata is as the loads left it
Info ==
    /\ record = NoRecord
    /\ record' = InfoRecord(metadata)
    /\ UNCHANGED <<scan_vars, meta_vars, flow_cell, name_vars, analysis_dir, outcome,
                   basecalls_info, samples_csv, fetched>>

ReportNext ==
    \/ \E file \in VariantFiles : loaded = <<>> /\ record = NoRecord /\ Load(file)
    \/ Info

ReportSpec == Init /\ [][ReportNext]_vars

(***************************************************************************)
(* A FlowCell constructed from a directory of the tree, with no project    *)
(* directory given                                                         *)
(***************************************************************************)
\* flow_cell = FlowCell(path), the caller catching what it raises
NewFlowCell(path) ==
    /\ project.status = "none"
    /\ flow_cell.status = "none"
    /\ isdir(path)
    /\ flow_cell' = [status |-> IF FlowCell(path, None).raised THEN "raised" ELSE "built",
                     path |-> path,
                     self |-> FlowCell(path, None).self]
    /\ UNCHANGED <<scan_vars, meta_vars, name_vars, cli_vars>>

\* the report files MockFlowcellDir.create writes
MockFlowcellFiles ==
    {File("report_" \o FC_A \o ".html", HtmlReportContent(HTML_JSON_DATA_25)),
     File("report_" \o FC_A \o ".json", JSON_DATA_24)}

DirectNext ==
    \/ \E rel \in Layout :
          mkdir(project_dir \o dirname(rel), basename(rel))
    \/ \E dir \in DOMAIN tree : \E file \in MockFlowcellFiles : write_report(dir, file)
    \/ \E path \in DOMAIN tree : NewFlowCell(path)

DirectSpec == Init /\ [][DirectNext]_vars

(***************************************************************************)
(* The three functions on names, each called once on some name             *)
(***************************************************************************)
NameInit ==
    /\ InitFilesystem
    /\ InitMetadata
    /\ flow_cell = NoFlowCell
    /\ fc_name \in FlowCellNames
    /\ answer = NoAnswer
    /\ InitCli

IsFlowCellName ==
    /\ answer.is_flow_cell_name = None
    /\ answer' = [answer EXCEPT !.is_flow_cell_name = Some(is_flow_cell_name(fc_name))]
    /\ UNCHANGED <<scan_vars, meta_vars, flow_cell, fc_name, cli_vars>>

GetFlowCellId ==
    /\ answer.get_flow_cell_id = None
    /\ answer' = [answer EXCEPT !.get_flow_cell_id = Some(get_flow_cell_id(fc_name))]
    /\ UNCHANGED <<scan_vars, meta_vars, flow_cell, fc_name, cli_vars>>

GetFlowCellDatestamp ==
    /\ answer.get_flow_cell_datestamp = None
    /\ answer' = [answer EXCEPT
                     !.get_flow_cell_datestamp = Some(get_flow_cell_datestamp(fc_name))]
    /\ UNCHANGED <<scan_vars, meta_vars, flow_cell, fc_name, cli_vars>>

NameNext == IsFlowCellName \/ GetFlowCellId \/ GetFlowCellDatestamp

NameSpec == NameInit /\ [][NameNext]_vars

(***************************************************************************)
(* Properties of the scan                                                  *)
(***************************************************************************)
Scanned == project.status # "none"

Built == project.status = "built"

FlowCells == Range(project.flow_cells)

BasecallsDirs == Range(project.basecalls_dirs)

Children(d) == Range(tree[d])

IsFlowCellMarker(name) == name = "pod5" \/ EndsWith(name, "_pass")

\* the flow cell's pool name is a component of the path
PoolMatches(fc, path) == fc.pool \in Range(split(path))

\* d lies strictly inside the subtree of e
Inside(d, e) == Len(d) > Len(e) /\ SubSeq(d, 1, Len(e)) = e

\* C1: a scan that returns has, for every directory with a child directory
\* named "pass", exactly one BasecallsDir in basecalls_dirs, and that one has
\* neither pool nor run when no flow cell's pool is a component of its path.
C1_EveryPassDirYieldsOneBasecallsDir ==
    Built =>
        \A d \in DOMAIN tree :
            "pass" \in Children(d) =>
                /\ Cardinality({i \in 1..Len(project.basecalls_dirs) :
                                   project.basecalls_dirs[i].path = d}) = 1
                /\ (\A fc \in FlowCells : ~PoolMatches(fc, d)) =>
                       \A bc \in BasecallsDirs :
                           bc.path = d => bc.pool = None /\ bc.run = None

\* C2 as claimed: every flow cell of a scanned project has the name of its
\* parent directory as pool and the name of its grandparent directory as run,
\* and run is unset exactly when the grandparent is the project directory.
C2_RunUnsetExactlyWhenGrandparentIsProject ==
    Built =>
        \A fc \in FlowCells :
            /\ fc.pool = basename(dirname(fc.path))
            /\ fc.run = None <=> dirname(dirname(fc.path)) = fc.project_dir[1]
            /\ fc.run # None => fc.run = Some(basename(dirname(dirname(fc.path))))

\* C2 as amended: every flow cell of a scanned project has the name of its
\* parent directory as pool; run is unset exactly when the parent or the
\* grandparent directory is the project directory, and is the name of the
\* grandparent directory in every other case.
C2_RunUnsetExactlyWhenParentOrGrandparentIsProject ==
    Built =>
        \A fc \in FlowCells :
            /\ fc.project_dir = Some(project.path)
            /\ fc.pool = basename(dirname(fc.path))
            /\ fc.run = None <=>
                   fc.project_dir[1] \in {dirname(fc.path), dirname(dirname(fc.path))}
            /\ fc.run # None => fc.run = Some(basename(dirname(dirname(fc.path))))

\* C2 witness: a scanned project with a flow cell directly under the project
\* directory (run unset) and one two levels further down (run set)
C2_Witness ==
    /\ Built
    /\ \E fc \in FlowCells : dirname(fc.path) = project.path /\ fc.run = None
    /\ \E fc \in FlowCells : fc.run = Some(RUN) /\ fc.pool = POOL_A

\* C3: flow_cells is in ascending order of name, and every basecalls
\* directory has the pool and run of the first flow cell of that list whose
\* pool is a component of its path.
C3_PoolOfFirstMatchingFlowCellByName ==
    Built =>
        /\ \A i, j \in 1..Len(project.flow_cells) :
              i < j => ~StrLess(project.flow_cells[j].name, project.flow_cells[i].name)
        /\ \A bc \in BasecallsDirs :
              \E i \in 1..Len(project.flow_cells) :
                  /\ PoolMatches(project.flow_cells[i], bc.path)
                  /\ \A j \in 1..(i - 1) : ~PoolMatches(project.flow_cells[j], bc.path)
                  /\ bc.pool = Some(project.flow_cells[i].pool)
                  /\ bc.run = project.flow_cells[i].run

\* C3 witness: a basecalls directory whose path holds the pools of two flow
\* cells that differ in pool and run
C3_Witness ==
    /\ Built
    /\ \E bc \in BasecallsDirs : \E fc1, fc2 \in FlowCells :
          /\ PoolMatches(fc1, bc.path)
          /\ PoolMatches(fc2, bc.path)
          /\ fc1.pool # fc2.pool
          /\ fc1.run # fc2.run

\* C4: after a scan, a directory that has a child "pass" and a child "pod5"
\* or "*_pass" is among the basecalls directories and not among the flow cell
\* directories.
C4_PassBeforePod5InAnyListingOrder ==
    Scanned =>
        \A d \in DOMAIN tree :
            ("pass" \in Children(d) /\ \E c \in Children(d) : IsFlowCellMarker(c)) =>
                d \in located.basecalls_dirs /\ d \notin located.flow_cell_dirs

\* C5: after a scan, no directory the walk put into flow_cell_dirs or
\* basecalls_dirs lies inside another one it put there.
C5_NothingLocatedBelowALocatedDirectory ==
    Scanned =>
        \A d, e \in located.flow_cell_dirs \cup located.basecalls_dirs : ~Inside(d, e)

\* C6: a scan that located a flow cell directory whose name is no flow cell
\* name has raised, and there is no project model: no flow cell and no
\* basecalls directory was kept.
C6_BadFlowCellNameRaises ==
    (Scanned /\ \E d \in located.flow_cell_dirs : ~is_flow_cell_name(basename(d))) =>
        /\ project.status = "raised"
        /\ project.flow_cells = <<>>
        /\ project.basecalls_dirs = <<>>

\* C6 witness: a scan that raised on a located directory with a bad name
C6_Witness ==
    /\ project.status = "raised"
    /\ \E d \in located.flow_cell_dirs : ~is_flow_cell_name(basename(d))

\* the names of the files of a directory that start with "report_", as listed
RECURSIVE ReportNames(_)
ReportNames(listing) ==
    IF listing = <<>> THEN <<>>
    ELSE IF StartsWith(Head(listing).name, "report_")
         THEN <<Head(listing).name>> \o ReportNames(Tail(listing))
    ELSE ReportNames(Tail(listing))

\* a file that load_from_report cannot load
FailsToLoad(file) == load_from_report(BasecallsMetadata, file).raised

\* an HTML report none of whose lines starts with a marker
NoMarkerHtml(file) ==
    /\ EndsWith(file.name, ".html")
    /\ file.content.kind = "lines"
    /\ \A i \in 1..Len(file.content.lines) :
          /\ ~StartsWith(lstrip(file.content.lines[i].text), MARKER_REPORT_DATA_JSON)
          /\ ~StartsWith(lstrip(file.content.lines[i].text), MARKER_REPORT_DATA)

\* C7: a scan raises only for a flow cell directory with a bad name, never for
\* a report; a scan that returns has an entity for every flow cell directory,
\* each entity lists every report file of its directory, also those that
\* fail to load; and an entity whose only file is an HTML report without a
\* marker has the metadata of a fresh BasecallsMetadata.
C7_FailedReportIsSkipped ==
    /\ project.status = "raised" =>
           \E d \in located.flow_cell_dirs : ~is_flow_cell_name(basename(d))
    /\ Built =>
           /\ \A d \in located.flow_cell_dirs : \E fc \in FlowCells : fc.path = d
           /\ \A e \in FlowCells \cup BasecallsDirs :
                 /\ e.reports = ReportNames(files[e.path])
                 /\ (Len(files[e.path]) = 1 /\ NoMarkerHtml(files[e.path][1])) =>
                        e.metadata = BasecallsMetadata

\* C7 witness: a scanned project with a flow cell whose only file is an HTML
\* report without a marker and a basecalls directory with a report that
\* fails to load
C7_Witness ==
    /\ Built
    /\ \E fc \in FlowCells :
          Len(files[fc.path]) = 1 /\ NoMarkerHtml(files[fc.path][1])
    /\ \E bc \in BasecallsDirs :
          \E i \in 1..Len(files[bc.path]) : FailsToLoad(files[bc.path][i])

(***************************************************************************)
(* Properties of a BasecallsMetadata object                                *)
(***************************************************************************)
\* the file of the load_from_report call that made the step
Loading == loaded'[Len(loaded')]

\* the attributes load_from_report_html assigns, and those that
\* load_from_report_json assigns
HtmlFields ==
    {"html_json_data", "flow_cell_id", "flow_cell_type", "kit", "basecalling",
     "modified_basecalling", "modifications", "trim_barcodes", "software_versions"}

JsonFields == {"json_data", "basecalling_model", "basecalling_config"}

\* C8 as claimed: no load_from_report call changes an attribute that was set
\* before the call.
C8_SetFieldNeverChanged ==
    [][\A k \in DOMAIN BasecallsMetadata :
          metadata[k] # None => metadata'[k] = metadata[k]]_vars

\* C8 as amended: a load of a JSON report changes no attribute taken from
\* HTML reports and changes neither the basecalling model nor the basecalling
\* config once that one is set and not empty; a load of an HTML report, or of
\* a file of another type, changes no attribute taken from JSON reports.
C8_LoadKeepsFieldsOfOtherKindAndNonEmptyModel ==
    [][loaded' # loaded =>
          /\ EndsWith(Loading.name, ".json") =>
                /\ \A k \in HtmlFields : metadata'[k] = metadata[k]
                /\ \A k \in {"basecalling_model", "basecalling_config"} :
                      Truthy(metadata[k]) => metadata'[k] = metadata[k]
          /\ ~EndsWith(Loading.name, ".json") =>
                \A k \in JsonFields : metadata'[k] = metadata[k]]_vars

\* C8 witness: a JSON report with one model was loaded, then a JSON report
\* with another model, and the first model stayed
C8_Witness ==
    /\ Len(loaded) = 2
    /\ loaded[1].content = JSON_DATA_24
    /\ loaded[2].content = JSON_DATA_SUP
    /\ EndsWith(loaded[2].name, ".json")
    /\ last_load = "returned"
    /\ metadata.basecalling_model = Some(MODEL_HAC)
    /\ metadata.json_data = Some(JSON_DATA_SUP)

\* a report that load_from_report loads into a fresh object without raising
WellFormed(file) == ~FailsToLoad(file)

\* what a fresh object holds after loading the one file
Alone(file) == load_from_report(BasecallsMetadata, file).self

\* C9: after one well-formed HTML report and one well-formed JSON report were
\* loaded into a fresh object, in either order, the attributes taken from
\* HTML reports are those the HTML report alone gives, the attributes taken
\* from JSON reports are those the JSON report alone gives, and the second
\* load returned.
C9_HtmlAndJsonInEitherOrder ==
    \A i \in {1, 2} :
        (/\ Len(loaded) = 2
         /\ EndsWith(loaded[i].name, ".html")
         /\ EndsWith(loaded[3 - i].name, ".json")
         /\ WellFormed(loaded[1])
         /\ WellFormed(loaded[2])) =>
            /\ last_load = "returned"
            /\ \A k \in HtmlFields : metadata[k] = Alone(loaded[i])[k]
            /\ \A k \in JsonFields : metadata[k] = Alone(loaded[3 - i])[k]

\* C9 witness: the JSON report of the version 24 test was loaded, then its
\* HTML report, and the object holds the values of both
C9_Witness ==
    /\ loaded = <<File("report_BLAH.json", JSON_DATA_24),
                  File("report_BLAH.html", HtmlReportContent(HTML_JSON_DATA_24))>>
    /\ metadata.flow_cell_id = Some("PAW15677")
    /\ metadata.flow_cell_type = Some("FLO-PRO114M")
    /\ metadata.kit = Some("SQK-RBK114-24")
    /\ metadata.modified_basecalling = Some("On")
    /\ metadata.modifications = Some("5mC & 5hmC")
    /\ metadata.trim_barcodes = Some("Off")
    /\ metadata.software_versions # None
    /\ metadata.basecalling_model = Some(MODEL_HAC)
    /\ metadata.basecalling_config = Some(CONFIG_HAC)

\* the section of that name of the JSON embedded in an HTML report
Embedded(file) == HtmlReport_extract_json(file.content).value

\* C10: after a load of an HTML report whose embedded JSON was found and has
\* the three sections, the load has returned, and every attribute whose title
\* is missing from its section is unset.
C10_MissingTitleLeavesFieldUnset ==
    (/\ Len(loaded) = 1
     /\ EndsWith(loaded[1].name, ".html")
     /\ ~HtmlReport_extract_json(loaded[1].content).raised
     /\ \A name \in {"run_setup", "run_settings", "software_versions"} :
           SectionReadable(Embedded(loaded[1]), name)) =>
        LET setup == _extract_section(Embedded(loaded[1]), "run_setup")
            settings == _extract_section(Embedded(loaded[1]), "run_settings")
        IN  /\ last_load = "returned"
            /\ ~HasKey(setup, "flow_cell_id") => metadata.flow_cell_id = None
            /\ ~HasKey(setup, "flow_cell_type") => metadata.flow_cell_type = None
            /\ ~HasKey(setup, "kit_type") => metadata.kit = None
            /\ ~HasKey(settings, "basecalling") => metadata.basecalling = None
            /\ ~HasKey(settings, "modified_basecalling") =>
                   metadata.modified_basecalling = None
            /\ ~HasKey(settings, "trim_barcodes") => metadata.trim_barcodes = None

\* the run settings of the latest report loaded, an HTML report whose load
\* returned
LatestHtmlReturned ==
    /\ loaded # <<>>
    /\ last_load = "returned"
    /\ EndsWith(loaded[Len(loaded)].name, ".html")

RunSettings == _extract_section(Embedded(loaded[Len(loaded)]), "run_settings")

\* C11 as claimed: after load_from_report_html, modifications is unset when
\* modified_basecalling is "Off"; when it is "On", modifications is the value
\* under "modifications" if the run settings have that key, and otherwise the
\* value under "modified_base_context" if they have that one.
C11_ModificationsFromFirstKeyPresent ==
    LatestHtmlReturned =>
        /\ metadata.modified_basecalling = Some("Off") => metadata.modifications = None
        /\ metadata.modified_basecalling = Some("On") =>
              IF HasKey(RunSettings, "modifications")
                  THEN metadata.modifications = Some(RunSettings["modifications"])
              ELSE HasKey(RunSettings, "modified_base_context") =>
                  metadata.modifications = Some(RunSettings["modified_base_context"])

\* C11 as amended: after load_from_report_html, modifications is unset when
\* modified_basecalling is "Off"; when it is "On", modifications is the value
\* under "modifications" if the run settings have that key with a non-empty
\* value, otherwise the value under "modified_base_context" if they have
\* that key, and otherwise unset.
C11_ModificationsFromFirstNonEmptyKey ==
    LatestHtmlReturned =>
        /\ metadata.modified_basecalling = Some(RunSettings["modified_basecalling"])
        /\ metadata.modified_basecalling = Some("Off") => metadata.modifications = None
        /\ metadata.modified_basecalling = Some("On") =>
              IF HasKey(RunSettings, "modifications") /\ RunSettings["modifications"] # ""
                  THEN metadata.modifications = Some(RunSettings["modifications"])
              ELSE IF HasKey(RunSettings, "modified_base_context")
                  THEN metadata.modifications = Some(RunSettings["modified_base_context"])
              ELSE metadata.modifications = None

\* C11 witness: a report with modified basecalling "On" and both keys, with
\* different values, was loaded and modifications is the value under
\* "modifications"
C11_Witness ==
    /\ LatestHtmlReturned
    /\ metadata.modified_basecalling = Some("On")
    /\ HasKey(RunSettings, "modifications")
    /\ HasKey(RunSettings, "modified_base_context")
    /\ RunSettings["modifications"] # RunSettings["modified_base_context"]
    /\ metadata.modifications = Some(RunSettings["modifications"])
    /\ metadata.modifications # Some("")

\* the latest report loaded is a JSON report with a list of acquisitions,
\* loaded into a record that had neither model nor config
JsonLoadedIntoNew ==
    /\ Len(loaded) = 1
    /\ last_load = "returned"
    /\ EndsWith(loaded[1].name, ".json")
    /\ loaded[1].content.kind = "object"
    /\ HasKey(loaded[1].content.value, "acquisitions")

LoadedAcquisitions == loaded[1].content.value["acquisitions"]

\* the values the acquisitions carry under a key of config_summary, in list
\* order
RECURSIVE Carried(_, _)
Carried(acquisitions, key) ==
    IF acquisitions = <<>> THEN <<>>
    ELSE ConfigSummaryItem(Head(acquisitions), key) \o Carried(Tail(acquisitions), key)

\* the first of a list of carried values, else nothing
FirstCarried(values) == IF values = <<>> THEN None ELSE Some(values[1])

\* C12 as claimed: after load_from_report_json on a record with neither
\* model nor config, each of the two fields is the value of the earliest
\* acquisition that carries it, and is unset when no acquisition carries it.
C12_FieldIsFirstCarriedValue ==
    JsonLoadedIntoNew =>
        /\ metadata.basecalling_model =
               FirstCarried(Carried(LoadedAcquisitions, "basecalling_model_version"))
        /\ metadata.basecalling_config =
               FirstCarried(Carried(LoadedAcquisitions, "basecalling_config_filename"))

\* the first non-empty value of a list of carried values, else the empty
\* value they all are, else nothing
FirstNonEmpty(values) ==
    IF \E i \in 1..Len(values) : values[i] # ""
        THEN <<values[CHOOSE i \in 1..Len(values) :
                         values[i] # "" /\ \A j \in 1..(i - 1) : values[j] = ""]>>
    ELSE IF values = <<>> THEN None
    ELSE Some("")

\* C12 as amended: after load_from_report_json on a record with neither
\* model nor config, each of the two fields is the first non-empty value an
\* acquisition carries for it in list order; it is the empty string when the
\* acquisitions carry only empty values for it, and unset when no
\* acquisition carries it.
C12_FieldIsFirstNonEmptyCarriedValue ==
    JsonLoadedIntoNew =>
        /\ metadata.basecalling_model =
               FirstNonEmpty(Carried(LoadedAcquisitions, "basecalling_model_version"))
        /\ metadata.basecalling_config =
               FirstNonEmpty(Carried(LoadedAcquisitions, "basecalling_config_filename"))

\* C12 witness: two acquisitions carry different non-empty models and
\* configs, and the record has those of the first
C12_Witness ==
    /\ JsonLoadedIntoNew
    /\ Carried(LoadedAcquisitions, "basecalling_model_version") = <<MODEL_SUP, MODEL_HAC>>
    /\ Carried(LoadedAcquisitions, "basecalling_config_filename") = <<CONFIG_SUP, CONFIG_HAC>>
    /\ metadata.basecalling_model = Some(MODEL_SUP)
    /\ metadata.basecalling_config = Some(CONFIG_SUP)

\* a JSON document of the shape {"acquisitions": [...]}
HasAcquisitions(content) ==
    content.kind = "object" /\ HasKey(content.value, "acquisitions")

\* C13 as claimed: load_from_report_json raises when the document is not of
\* the shape {"acquisitions": [...]}, a root object with no "acquisitions"
\* included, and returns when it is, whatever keys its acquisitions lack.
C13_RaisesWithoutAcquisitions ==
    [][(loaded' # loaded /\ EndsWith(Loading.name, ".json")) =>
          (last_load' = "raised" <=> ~HasAcquisitions(Loading.content))]_vars

\* C13 as amended: load_from_report_json raises when the file is not JSON
\* or the root of the document is a list, and returns when the root is an
\* object: with no "acquisitions" entry it keeps the document and leaves
\* the model and the config as they were, and with one it returns whatever
\* keys the acquisitions lack.
C13_RaisesUnlessRootIsObject ==
    [][(loaded' # loaded /\ EndsWith(Loading.name, ".json")) =>
          /\ last_load' = "raised" <=> Loading.content.kind # "object"
          /\ (Loading.content.kind = "object" /\ ~HasAcquisitions(Loading.content)) =>
                /\ metadata'.json_data = Some(Loading.content)
                /\ metadata'.basecalling_model = metadata.basecalling_model
                /\ metadata'.basecalling_config = metadata.basecalling_config]_vars

\* C13 witness: a root object with no "acquisitions" was loaded after a
\* report with a model; the load returned, and the model stayed
C13_Witness ==
    /\ Len(loaded) = 2
    /\ EndsWith(loaded[2].name, ".json")
    /\ loaded[1].content = JSON_DATA_LATER
    /\ loaded[2].content = JSON_DATA_NO_ACQUISITIONS
    /\ last_load = "returned"
    /\ metadata.json_data = Some(JSON_DATA_NO_ACQUISITIONS)
    /\ metadata.basecalling_model = Some(MODEL_SUP)

\* str.split(sep) for a separator of one character
RECURSIVE SplitOn(_, _)
SplitOn(s, sep) ==
    IF \A i \in 1..Len(s) : CharAt(s, i) # sep THEN <<s>>
    ELSE LET i == CHOOSE i \in 1..Len(s) :
                      CharAt(s, i) = sep /\ \A j \in 1..(i - 1) : CharAt(s, j) # sep
         IN  <<SubSeq(s, 1, i - 1)>> \o SplitOn(SubSeq(s, i + 1, Len(s)), sep)

\* one or more characters, all of a class
AllOf(token, cls) ==
    Len(token) >= 1 /\ \A i \in 1..Len(token) : CharAt(token, i) \in cls

\* a name without the newline it may end with
WithoutFinalNewline(s) == IF EndsWith(s, "\n") THEN SubSeq(s, 1, Len(s) - 1) ELSE s

\* the tokens DATESTAMP, TIME, POSITION, FLOWCELLID, HASH of the name handed
\* to the three functions
Tokens == SplitOn(WithoutFinalNewline(fc_name), "_")

\* C14 as claimed: is_flow_cell_name is true exactly for the names that are
\* five tokens joined by "_", the first exactly 8 digits, the second exactly
\* 4 digits, the third a digit then an uppercase letter, the fourth three
\* uppercase letters then one or more digits, the fifth one or more
\* lowercase letters or digits.
C14_TrueExactlyForFixedWidthTokens ==
    answer.is_flow_cell_name # None =>
        (answer.is_flow_cell_name = Some(TRUE) <=>
            LET tokens == SplitOn(fc_name, "_")
            IN  /\ Len(tokens) = 5
                /\ Len(tokens[1]) = 8 /\ AllOf(tokens[1], Digits)
                /\ Len(tokens[2]) = 4 /\ AllOf(tokens[2], Digits)
                /\ Len(tokens[3]) = 2
                /\ CharAt(tokens[3], 1) \in Digits
                /\ CharAt(tokens[3], 2) \in UpperCase
                /\ Len(tokens[4]) >= 4
                /\ AllOf(SubSeq(tokens[4], 1, 3), UpperCase)
                /\ AllOf(SubSeq(tokens[4], 4, Len(tokens[4])), Digits)
                /\ AllOf(tokens[5], LowerCase \cup Digits))

\* C14 as amended: is_flow_cell_name is true exactly for the names that,
\* without the one newline they may end with, are five tokens joined by "_",
\* the first one or more digits, the second one or more digits, the third a
\* digit then an uppercase letter, the fourth "P" then two uppercase letters
\* then one or more digits, the fifth one or more lowercase letters or
\* digits.
C14_TrueExactlyForPatternTokens ==
    answer.is_flow_cell_name # None =>
        (answer.is_flow_cell_name = Some(TRUE) <=>
            /\ Len(Tokens) = 5
            /\ AllOf(Tokens[1], Digits)
            /\ AllOf(Tokens[2], Digits)
            /\ Len(Tokens[3]) = 2
            /\ CharAt(Tokens[3], 1) \in Digits
            /\ CharAt(Tokens[3], 2) \in UpperCase
            /\ Len(Tokens[4]) >= 4
            /\ CharAt(Tokens[4], 1) = "P"
            /\ AllOf(SubSeq(Tokens[4], 2, 3), UpperCase)
            /\ AllOf(SubSeq(Tokens[4], 4, Len(Tokens[4])), Digits)
            /\ AllOf(Tokens[5], LowerCase \cup Digits))

\* C14 witness: is_flow_cell_name gave true for a name with a datestamp of 7
\* digits and a time of 3, ending with a newline
C14_Witness ==
    /\ fc_name = "2024051_829_1A_PAW15419_465bb23f\n"
    /\ answer.is_flow_cell_name = Some(TRUE)

\* C15: get_flow_cell_id and get_flow_cell_datestamp return a string for
\* every name; for a name is_flow_cell_name is true of they return its
\* fourth and its first token, neither empty, and for every other name the
\* empty string.
C15_TokensWhenFlowCellNameElseEmpty ==
    /\ answer.is_flow_cell_name = Some(TRUE) =>
          /\ answer.get_flow_cell_id \in {None, Some(Tokens[4])}
          /\ answer.get_flow_cell_datestamp \in {None, Some(Tokens[1])}
          /\ Tokens[4] # "" /\ Tokens[1] # ""
    /\ answer.is_flow_cell_name = Some(FALSE) =>
          /\ answer.get_flow_cell_id \in {None, Some("")}
          /\ answer.get_flow_cell_datestamp \in {None, Some("")}

\* C15 witness: the three functions were called on a flow cell name, and on
\* it the identifier and the datestamp came back
C15_Witness ==
    /\ fc_name = FC_A
    /\ answer.is_flow_cell_name = Some(TRUE)
    /\ answer.get_flow_cell_id = Some("PAW15419")
    /\ answer.get_flow_cell_datestamp = Some("20240513")

\* C16 as claimed: a FlowCell constructed from a directory with a flow cell
\* name and no project directory does not raise, has the name of its parent
\* directory as pool, and has no run.
C16_RunUnsetWithoutProjectDir ==
    flow_cell.status # "none" =>
        /\ flow_cell.status = "raised" <=> ~is_flow_cell_name(basename(flow_cell.path))
        /\ flow_cell.status = "built" =>
              /\ flow_cell.self[1].pool = basename(dirname(flow_cell.path))
              /\ flow_cell.self[1].run = None

\* C16 as amended: a FlowCell constructed from a directory with a flow cell
\* name and no project directory does not raise, has the name of its parent
\* directory as pool and the name of its grandparent directory as run, and
\* has no project directory.
C16_RunIsGrandparentWithoutProjectDir ==
    flow_cell.status # "none" =>
        /\ flow_cell.status = "raised" <=> ~is_flow_cell_name(basename(flow_cell.path))
        /\ flow_cell.status = "built" =>
              /\ flow_cell.self[1].project_dir = None
              /\ flow_cell.self[1].pool = basename(dirname(flow_cell.path))
              /\ flow_cell.self[1].run = Some(basename(dirname(dirname(flow_cell.path))))

\* C16 witness: the flow cell of test_flow_cell, constructed from its
\* directory, with its pool and its run
C16_Witness ==
    /\ flow_cell.status = "built"
    /\ flow_cell.path = PROJECT_DIR \o <<RUN, POOL_A, FC_A>>
    /\ flow_cell.self[1].project_dir = None
    /\ flow_cell.self[1].pool = POOL_A
    /\ flow_cell.self[1].run = Some(RUN)

\* the flow cell directories of the tree: validly named, with a "pod5" or
\* "*_pass" child
FlowCellDirectories ==
    {d \in DOMAIN tree :
        /\ is_flow_cell_name(basename(d))
        /\ \E c \in Children(d) : IsFlowCellMarker(c)}

\* the tree holds flow cell directories and nothing else that a scan picks
\* up: no directory has a child "pass", and a directory with a "pod5" or
\* "*_pass" child is validly named
OnlyFlowCellDirectories ==
    \A d \in DOMAIN tree :
        /\ "pass" \notin Children(d)
        /\ (\E c \in Children(d) : IsFlowCellMarker(c)) => d \in FlowCellDirectories

AscendingByName(list) ==
    \A i, j \in 1..Len(list) : i < j => ~StrLess(list[j].name, list[i].name)

\* C17: the scan of a tree that holds N flow cell directories and no
\* directory with a child "pass" returns with exactly N flow cells, one for
\* each of the directories, and no basecalls directory; after any scan that
\* returns, flow_cells and basecalls_dirs are each in ascending order of name.
C17_OneFlowCellPerDirectoryInNameOrder ==
    Scanned =>
        /\ OnlyFlowCellDirectories =>
              /\ Built
              /\ Len(project.flow_cells) = Cardinality(FlowCellDirectories)
              /\ {fc.path : fc \in FlowCells} = FlowCellDirectories
              /\ project.basecalls_dirs = <<>>
        /\ Built =>
              /\ AscendingByName(project.flow_cells)
              /\ AscendingByName(project.basecalls_dirs)

\* C17 witness: a tree whose one flow cell directory has pod5, bam_pass and
\* fastq_pass was scanned, and the project has that flow cell alone
C17_Witness ==
    /\ Built
    /\ OnlyFlowCellDirectories
    /\ FlowCellDirectories = {PROJECT_DIR \o <<RUN, POOL_A, FC_A>>}
    /\ {"pod5", "bam_pass", "fastq_pass"} \subseteq Children(PROJECT_DIR \o <<RUN, POOL_A, FC_A>>)
    /\ Len(project.flow_cells) = 1
    /\ project.flow_cells[1].pod5 # None
    /\ project.flow_cells[1].bam_pass # None
    /\ project.flow_cells[1].fastq_pass # None
    /\ project.basecalls_dirs = <<>>

\* a title in lower case with every space, hyphen and period replaced by
\* an underscore
RECURSIVE TitleWithUnderscores(_)
TitleWithUnderscores(title) ==
    IF Len(title) = 0 THEN ""
    ELSE (IF CharAt(title, 1) \in {" ", "-", "."} THEN "_" ELSE LowerChar(CharAt(title, 1)))
         \o TitleWithUnderscores(SubSeq(title, 2, Len(title)))

\* the items of the "software_versions" section of the latest report
VersionItems == Range(Embedded(loaded[Len(loaded)]).software_versions)

\* C18: the mapping _extract_section makes of a section has, for each item
\* whose title no later item repeats, the item's value under the title in
\* lower case with every space, hyphen and period replaced by an underscore.
C18_KeyIsTitleWithUnderscores ==
    LatestHtmlReturned =>
        \A item \in VersionItems :
            /\ HasKey(metadata.software_versions[1], TitleWithUnderscores(item.title))
            /\ metadata.software_versions[1][TitleWithUnderscores(item.title)]
                   \in {other.value : other \in {o \in VersionItems : o.title = item.title}}

\* the lines of the one HTML file loaded into a new BasecallsMetadata
HtmlLoadedIntoNew ==
    /\ Len(loaded) = 1
    /\ EndsWith(loaded[1].name, ".html")
    /\ loaded[1].content.kind = "lines"

LoadedLines == loaded[1].content.lines

\* the lines that start with one of the two markers and an object, and
\* those of them that have the form <marker><JSON object>;
LinesWithMarker ==
    {i \in 1..Len(LoadedLines) :
        /\ LoadedLines[i].json # None
        /\ lstrip(LoadedLines[i].text) \in {MARKER_REPORT_DATA_JSON, MARKER_REPORT_DATA}}

LinesWithSemicolon == {i \in LinesWithMarker : rstrip(LoadedLines[i].tail) = ";"}

First(indices) == CHOOSE i \in indices : \A j \in indices : i <= j

\* extract_json returned this object: it is what load_from_report_html
\* stored; and extract_json raised: the load raised and stored nothing
Extracted(object) == metadata.html_json_data = Some(object)

ExtractRaised == last_load = "raised" /\ metadata.html_json_data = None

\* C19 as claimed: from a file with a line <marker><JSON object>; for either
\* marker, extract_json returns the object of the first such line; from a
\* file with no line that starts with a marker it raises.
C19_FirstLineWithMarkerAndSemicolon ==
    HtmlLoadedIntoNew =>
        /\ LinesWithSemicolon # {} =>
              Extracted(LoadedLines[First(LinesWithSemicolon)].json[1])
        /\ LinesWithMarker = {} => ExtractRaised

\* C19 as amended: the first line that starts with a marker and an object
\* decides.  After "const reportDataJson = " extract_json returns the object
\* when a semicolon follows it and raises when nothing does; after
\* "const reportData=" it returns the object when nothing follows it and
\* raises when a semicolon does.  From a file with no such line it raises.
C19_FirstLineWithMarkerDecides ==
    HtmlLoadedIntoNew =>
        IF LinesWithMarker = {} THEN ExtractRaised
        ELSE LET line == LoadedLines[First(LinesWithMarker)]
             IN  IF lstrip(line.text) = MARKER_REPORT_DATA_JSON
                 THEN /\ rstrip(line.tail) = ";" => Extracted(line.json[1])
                      /\ rstrip(line.tail) = "" => ExtractRaised
                 ELSE /\ rstrip(line.tail) = "" => Extracted(line.json[1])
                      /\ rstrip(line.tail) = ";" => ExtractRaised

\* C19 witness: a file with "const reportData=" and an object on its first
\* line and "const reportDataJson = ", another object and a semicolon on its
\* second was loaded, and the object of the first line came back
C19_Witness ==
    /\ HtmlLoadedIntoNew
    /\ LinesWithMarker = {1, 2}
    /\ LoadedLines[1].text = MARKER_REPORT_DATA
    /\ LoadedLines[1].tail = "\n"
    /\ LoadedLines[2].text = MARKER_REPORT_DATA_JSON
    /\ LoadedLines[2].tail = ";\n"
    /\ LoadedLines[1].json # LoadedLines[2].json
    /\ Extracted(LoadedLines[1].json[1])
    /\ last_load = "returned"

\* C20: load_from_report reads a file named "*.html" as an HTML report (it
\* touches no attribute taken from JSON reports, stores the embedded JSON
\* when it returns, and raises for a JSON text) and a file named "*.json" as
\* a JSON report (it touches no attribute taken from HTML reports, stores
\* the document when it returns, and raises for an HTML text); for a file of
\* any other name it raises and leaves every attribute as it was.
C20_DispatchOnExtension ==
    [][loaded' # loaded =>
          IF EndsWith(Loading.name, ".html")
              THEN /\ \A k \in JsonFields : metadata'[k] = metadata[k]
                   /\ last_load' = "returned" =>
                          metadata'.html_json_data = Some(Embedded(Loading))
                   /\ Loading.content.kind # "lines" => last_load' = "raised"
          ELSE IF EndsWith(Loading.name, ".json")
              THEN /\ \A k \in HtmlFields : metadata'[k] = metadata[k]
                   /\ last_load' = "returned" => metadata'.json_data = Some(Loading.content)
                   /\ Loading.content.kind = "lines" => last_load' = "raised"
          ELSE last_load' = "raised" /\ metadata' = metadata]_vars

\* C20 witness: after an HTML report was loaded, load_from_report raised
\* for a file "report_BLAH.md" with the content of an HTML report, and the
\* record is as the first load left it
C20_Witness ==
    /\ Len(loaded) = 2
    /\ EndsWith(loaded[1].name, ".html")
    /\ WellFormed(loaded[1])
    /\ EndsWith(loaded[2].name, ".md")
    /\ loaded[2].content = HtmlReportContent(HTML_JSON_DATA_25)
    /\ last_load = "raised"
    /\ metadata = Alone(loaded[1])
    /\ metadata.flow_cell_id # None

(***************************************************************************)
(* FlowcellBasecallsInfo of analysis.py: a new object and calls of         *)
(* add_base_calls                                                          *)
(***************************************************************************)
\* utils.convert_field_name: lower case, "_" for a space or a period and
\* before a capital that follows a small letter
RECURSIVE ConvertFrom(_, _)
ConvertFrom(s, i) ==
    IF i > Len(s) THEN ""
    ELSE (IF CharAt(s, i) \in {" ", "."} THEN "_"
          ELSE IF i > 1 /\ CharAt(s, i) \in UpperCase /\ CharAt(s, i - 1) \in LowerCase
               THEN "_" \o LowerChar(CharAt(s, i))
          ELSE LowerChar(CharAt(s, i)))
         \o ConvertFrom(s, i + 1)

convert_field_name(field) == ConvertFrom(field, 1)

\* FlowcellBasecallsInfo.__init__: self._fields
FlowcellBasecallsInfo_fields ==
    <<"Run", "PoolName", "SubDir", "FlowCellID", "Reports", "Kit", "Modifications",
      "TrimBarcodes">>

\* FlowcellBasecallsInfo.__init__: self._kws
FlowcellBasecallsInfo_kws ==
    [i \in 1..Len(FlowcellBasecallsInfo_fields) |->
        convert_field_name(FlowcellBasecallsInfo_fields[i])]

\* FlowcellBasecallsInfo(): no entries
FlowcellBasecallsInfo == [entries |-> <<>>, added |-> 0, kws |-> None, raised |-> FALSE]

\* add_base_calls(**kws): KeyError for a keyword that is not in self._kws,
\* else one list with a value or None for each of self._kws is appended
add_base_calls(self, kws) ==
    IF \E k \in DOMAIN kws : k \notin Range(FlowcellBasecallsInfo_kws)
    THEN [raised |-> TRUE, entries |-> self.entries]
    ELSE [raised |-> FALSE,
          entries |-> Append(self.entries,
                             [i \in 1..Len(FlowcellBasecallsInfo_kws) |->
                                 IF FlowcellBasecallsInfo_kws[i] \in DOMAIN kws
                                 THEN Some(kws[FlowcellBasecallsInfo_kws[i]])
                                 ELSE None])]

\* TabFile: entry[column], None where the file has no such column
Column(entry, column) ==
    IF \E i \in 1..Len(FlowcellBasecallsInfo_fields) :
          FlowcellBasecallsInfo_fields[i] = column
    THEN entry[CHOOSE i \in 1..Len(FlowcellBasecallsInfo_fields) :
                  FlowcellBasecallsInfo_fields[i] = column]
    ELSE None

\* the keywords and values test_flowcell_basecalls_info_create_file passes,
\* and a keyword that names no column
BaseCallsValues ==
    [run |-> "Run1",
     pool_name |-> "WT1_WT2",
     sub_dir |-> "WT1_WT2/20250616_0817_1F_PBC32212_40107e18",
     flow_cell_id |-> "PBC32212",
     reports |-> "html,json",
     kit |-> "SQK-PCB114-24",
     modifications |-> "none",
     trim_barcodes |-> "Off",
     minknow_version |-> "25.03.7",
     basecalling_model |-> "dna_r10.4.1_e8.2_400bps_hac@v4.3.0",
     file_types |-> "pod5,bam",
     flowcell |-> "PBC32212"]

\* the keywords ProjectAnalysisDir.create passes
CreateKeywords ==
    {"run", "pool_name", "sub_dir", "flow_cell_id", "reports", "kit", "modifications",
     "trim_barcodes"}

\* the keywords of one call: those of create or a few of them, those of the
\* test or all but one of them, any of these with the keyword that names no
\* column
KeywordSets ==
    LET known == {CreateKeywords, {"run"}, {"run", "pool_name", "sub_dir"}, {}}
                 \cup {CreateKeywords \ {k} : k \in CreateKeywords}
        test == DOMAIN BaseCallsValues \ {"flowcell"}
        later == {test} \cup {test \ {k} : k \in test}
    IN  known \cup later \cup {S \cup {"flowcell"} : S \in known \cup later}

\* the most add_base_calls calls on one FlowcellBasecallsInfo
MaxBaseCalls == 2

\* basecalls_info = FlowcellBasecallsInfo()
NewFlowcellBasecallsInfo ==
    /\ basecalls_info = <<>>
    /\ basecalls_info' = FlowcellBasecallsInfo
    /\ UNCHANGED <<scan_vars, meta_vars, flow_cell, name_vars, record, analysis_dir,
                   outcome, samples_csv, fetched>>

\* basecalls_info.add_base_calls(**kws), the caller catching what it raises
AddBaseCalls(keywords) ==
    /\ basecalls_info # <<>>
    /\ basecalls_info.added < MaxBaseCalls
    /\ basecalls_info' =
          [entries |-> add_base_calls(basecalls_info,
                                      [k \in keywords |-> BaseCallsValues[k]]).entries,
           added |-> basecalls_info.added + 1,
           kws |-> Some(keywords),
           raised |-> add_base_calls(basecalls_info,
                                     [k \in keywords |-> BaseCallsValues[k]]).raised]
    /\ UNCHANGED <<scan_vars, meta_vars, flow_cell, name_vars, record, analysis_dir,
                   outcome, samples_csv, fetched>>

BasecallsNext ==
    \/ NewFlowcellBasecallsInfo
    \/ \E keywords \in KeywordSets : AddBaseCalls(keywords)

BasecallsSpec == Init /\ [][BasecallsNext]_vars

(***************************************************************************)
(* cli.setup: the samples CSV file is read into a list of                  *)
(* (sample, barcode, flowcell) tuples                                      *)
(***************************************************************************)
\* the end of one pass of the loop: "if flowcell: prev_flowcell = flowcell,
\* else: flowcell = prev_flowcell", then samples.append
AppendSample(fields, flowcell, prev_flowcell, samples) ==
    IF Truthy(flowcell)
    THEN [raised |-> "", bound |-> TRUE, flowcell |-> flowcell, prev_flowcell |-> flowcell,
          samples |-> Append(samples, <<fields[1], fields[2], flowcell>>)]
    ELSE [raised |-> "", bound |-> TRUE, flowcell |-> prev_flowcell,
          prev_flowcell |-> prev_flowcell,
          samples |-> Append(samples, <<fields[1], fields[2], prev_flowcell>>)]

\* one pass of the loop on the fields of a line: three fields are unpacked
\* into sample, barcode, flowcell; two into sample, barcode, and flowcell is
\* what the pass before left, unbound in the first pass; any other number
\* raises ValueError from the except clause
ReadSampleFields(fields, loop) ==
    IF Len(fields) = 3
        THEN AppendSample(fields, Some(fields[3]), loop.prev_flowcell, loop.samples)
    ELSE IF Len(fields) # 2
        THEN [loop EXCEPT !.raised = "ValueError"]
    ELSE IF ~loop.bound
        THEN [loop EXCEPT !.raised = "UnboundLocalError"]
    ELSE AppendSample(fields, loop.flowcell, loop.prev_flowcell, loop.samples)

\* "for line in fp" from the i-th line on, until a pass raises
RECURSIVE ReadSampleLines(_, _, _)
ReadSampleLines(lines, i, loop) ==
    IF i > Len(lines) \/ loop.raised # "" THEN loop
    ELSE ReadSampleLines(lines, i + 1,
                         ReadSampleFields(SplitOn(strip(lines[i]), ","), loop))

\* cli.setup, "Fetch sample information": the first line is skipped
ReadSamplesCsv(lines) ==
    ReadSampleLines(lines, 2,
                    [raised |-> "", bound |-> FALSE, flowcell |-> None,
                     prev_flowcell |-> None, samples |-> <<>>])

\* lines of a samples CSV file: with a flow cell, with an empty one, with
\* none, and with one field and four
SampleLines ==
    {"PG1,NB03,PAW15419\n", "PG2,NB04,\n", "PG3,NB05\n", "PG4,NB06,PAW15420\n",
     "PG5\n", "PG6,NB08,PAW15421,Human\n"}

\* the most lines after the header line
MaxSampleLines == 3

\* a header line and up to MaxSampleLines lines
SampleSheets ==
    {<<"Sample name,Barcode,Flow cell ID\n">> \o rest :
        rest \in UNION {[1..n -> SampleLines] : n \in 0..MaxSampleLines}}

SetupInit ==
    /\ InitFilesystem
    /\ InitMetadata
    /\ InitCalls
    /\ record = NoRecord
    /\ analysis_dir = <<>>
    /\ outcome = <<>>
    /\ basecalls_info = <<>>
    /\ samples_csv \in {[lines |-> lines, status |-> "unread", samples |-> <<>>] :
                           lines \in SampleSheets}
    /\ fetched = <<>>

\* cli.setup reads the file, the caller catching what it raises
SetupReadSamples ==
    /\ samples_csv.status = "unread"
    /\ samples_csv' =
          [lines |-> samples_csv.lines,
           status |-> IF ReadSamplesCsv(samples_csv.lines).raised = ""
                      THEN "read"
                      ELSE ReadSamplesCsv(samples_csv.lines).raised,
           samples |-> IF ReadSamplesCsv(samples_csv.lines).raised = ""
                       THEN ReadSamplesCsv(samples_csv.lines).samples
                       ELSE <<>>]
    /\ UNCHANGED <<scan_vars, meta_vars, flow_cell, name_vars, record, analysis_dir,
                   outcome, basecalls_info, fetched>>

SetupNext == SetupReadSamples

SetupSpec == SetupInit /\ [][SetupNext]_vars

(***************************************************************************)
(* cli.fetch: the file types are checked, the data files are transferred,  *)
(* the report files are transferred, the group is set                      *)
(***************************************************************************)
\* str.lower()
RECURSIVE lower(_)
lower(s) ==
    IF Len(s) = 0 THEN ""
    ELSE LowerChar(CharAt(s, 1)) \o lower(SubSeq(s, 2, Len(s)))

FILE_TYPES == <<"POD5", "FASTQ", "BAM">>

FILE_TYPES_LOWER == [i \in 1..Len(FILE_TYPES) |-> lower(FILE_TYPES[i])]

\* "if not file_types: file_types = ["bam"]"
FileTypesOrDefault(file_types) ==
    IF file_types = None THEN <<"bam">>
    ELSE IF file_types[1] = <<>> THEN <<"bam">>
    ELSE file_types[1]

\* the loop that raises for a file type not in FILE_TYPES_LOWER, then
\* "file_types = [t.lower() for t in file_types]"
CheckFileTypes(self) ==
    IF \E i \in 1..Len(FileTypesOrDefault(self.file_types)) :
          lower(FileTypesOrDefault(self.file_types)[i]) \notin Range(FILE_TYPES_LOWER)
    THEN [self EXCEPT !.pc = "raised",
                      !.raised = "fetch: unknown file type requested"]
    ELSE [self EXCEPT
             !.pc = "data",
             !.file_types =
                 Some([i \in 1..Len(FileTypesOrDefault(self.file_types)) |->
                          lower(FileTypesOrDefault(self.file_types)[i])])]

\* the --include arguments of rsync_data for one file type
DataIncludes(type) ==
    IF type = "pod5" THEN {"pod5/*/*.pod5"}
    ELSE IF type = "fastq"
         THEN {"fastq_pass/*/*.fastq", "fastq_pass/*/*.fastq.gz", "pass/*/*.fastq",
               "pass/*/*.fastq.gz"}
    ELSE {"bam_pass/*/*.bam", "bam_pass/*/*.bai", "pass/*/*.bam", "pass/*/*.bai"}

\* rsync_data = Command('rsync', ...)
rsync_data(self) ==
    [command |-> "rsync",
     dry_run |-> self.dry_run,
     includes |-> {"*/"} \cup UNION {DataIncludes(self.file_types[1][i]) :
                                        i \in 1..Len(self.file_types[1])}]

\* rsync_reports = Command('rsync', ...)
rsync_reports(self) ==
    [command |-> "rsync",
     dry_run |-> self.dry_run,
     includes |-> {"*/", "report_*", "sample_sheet_*"}]

\* "status = execute_command(...)" as it would be with the status not
\* looked at
Executed_StatusIgnored(self, command, status, failure, then) ==
    [self EXCEPT !.executed = Append(@, [run |-> command, status |-> status]),
                 !.pc = then]

\* "status = execute_command(...); if status != 0: raise Exception(...)"
Executed(self, command, status, failure, then) ==
    IF status # 0
    THEN [self EXCEPT !.executed = Append(@, [run |-> command, status |-> status]),
                      !.pc = "raised",
                      !.raised = failure]
    ELSE [self EXCEPT !.executed = Append(@, [run |-> command, status |-> status]),
                      !.pc = then]

\* "if group is not None: if not dry_run: set_group(...)"
SetGroup(self) ==
    IF self.group # None /\ ~self.dry_run
    THEN [self EXCEPT !.executed = Append(@, [run |-> [command |-> "set_group",
                                                       group |-> self.group[1]],
                                              status |-> 0]),
                      !.pc = "returned"]
    ELSE [self EXCEPT !.pc = "returned"]

\* the file_types arguments: none, an empty list, and lists of up to two of
\* the known types, in either case, and an unknown one
FileTypeArguments ==
    {None}
    \cup {Some(list) : list \in UNION {[1..n -> {"bam", "POD5", "fastq", "cram"}] :
                                          n \in 0..2}}

\* the exit statuses of a command
ExitStatuses == {0, 1, 23}

FetchInit ==
    /\ InitFilesystem
    /\ InitMetadata
    /\ InitCalls
    /\ record = NoRecord
    /\ analysis_dir = <<>>
    /\ outcome = <<>>
    /\ basecalls_info = <<>>
    /\ samples_csv = <<>>
    /\ fetched \in {[file_types |-> file_types, dry_run |-> dry_run, group |-> group,
                     requested |-> FileTypesOrDefault(file_types),
                     pc |-> "start", executed |-> <<>>, raised |-> ""] :
                       file_types \in FileTypeArguments,
                       dry_run \in BOOLEAN,
                       group \in {None, Some("bcf")}}

FetchCheckFileTypes ==
    /\ fetched.pc = "start"
    /\ fetched' = CheckFileTypes(fetched)
    /\ UNCHANGED <<scan_vars, meta_vars, flow_cell, name_vars, record, analysis_dir,
                   outcome, basecalls_info, samples_csv>>

FetchTransferData ==
    /\ fetched.pc = "data"
    /\ \E status \in ExitStatuses :
          fetched' = Executed(fetched, rsync_data(fetched), status,
                              "fetch: failed to transfer data", "reports")
    /\ UNCHANGED <<scan_vars, meta_vars, flow_cell, name_vars, record, analysis_dir,
                   outcome, basecalls_info, samples_csv>>

FetchTransferReports ==
    /\ fetched.pc = "reports"
    /\ \E status \in ExitStatuses :
          fetched' = Executed(fetched, rsync_reports(fetched), status,
                              "fetch: failed to transfer reports", "group")
    /\ UNCHANGED <<scan_vars, meta_vars, flow_cell, name_vars, record, analysis_dir,
                   outcome, basecalls_info, samples_csv>>

FetchSetGroup ==
    /\ fetched.pc = "group"
    /\ fetched' = SetGroup(fetched)
    /\ UNCHANGED <<scan_vars, meta_vars, flow_cell, name_vars, record, analysis_dir,
                   outcome, basecalls_info, samples_csv>>

FetchNext ==
    \/ FetchCheckFileTypes
    \/ FetchTransferData
    \/ FetchTransferReports
    \/ FetchSetGroup

FetchSpec == FetchInit /\ [][FetchNext]_vars

(***************************************************************************)
(* ProjectAnalysisDir of analysis.py: create and report.  The analysis     *)
(* directory is a record: whether its path exists, what it holds (a        *)
(* function from entry names to contents), and the object's project info   *)
(* and samples                                                             *)
(***************************************************************************)
\* RE_PROJECT_DIR_NAME = "^PromethION_Project_([0-9]+)_(.+)$": where the
\* digits of group 1 end, 0 when the name does not match
ProjectNumberEnd(name) ==
    IF ~StartsWith(name, "PromethION_Project_") THEN 0
    ELSE IF RunEnd(name, 20, Digits) = 20 THEN 0
    ELSE IF RunEnd(name, 20, Digits) + 1 > Len(name) THEN 0
    ELSE IF CharAt(name, RunEnd(name, 20, Digits)) # "_" THEN 0
    ELSE RunEnd(name, 20, Digits) - 1

\* ProjectAnalysisDir._make_project_id: AttributeError when the name does
\* not match (match() gives None)
_make_project_id(name) ==
    IF ProjectNumberEnd(name) = 0
    THEN [raised |-> TRUE, value |-> None]
    ELSE [raised |-> FALSE,
          value |-> Some("PROMETHION#" \o SubSeq(name, 20, ProjectNumberEnd(name)))]

\* ProjectInfo(): every item None
ProjectInfo ==
    [name |-> None, id |-> None, datestamp |-> None, platform |-> None, user |-> None,
     PI |-> None, application |-> None, organism |-> None, data_dir |-> None,
     comments |-> None]

\* ProjectAnalysisDir(path) on a path that does not exist
NewProjectAnalysisDir ==
    [present |-> FALSE, entries |-> <<>>, info |-> ProjectInfo, samples |-> <<>>]

Directory(names) == [kind |-> "directory", names |-> names]

\* SamplesInfo.save: the entries in the order of their sample names
RECURSIVE InsertSample(_, _)
InsertSample(sorted, sample) ==
    IF sorted = <<>> THEN <<sample>>
    ELSE IF StrLess(sample[1], Head(sorted)[1]) THEN <<sample>> \o sorted
    ELSE <<Head(sorted)>> \o InsertSample(Tail(sorted), sample)

RECURSIVE SortedSamples(_)
SortedSamples(samples) ==
    IF samples = <<>> THEN <<>>
    ELSE InsertSample(SortedSamples(SubSeq(samples, 1, Len(samples) - 1)),
                      samples[Len(samples)])

\* an entry is put into the directory, or replaced
WriteEntry(self, entry, content) ==
    [self EXCEPT !.entries = [e \in DOMAIN self.entries \cup {entry} |->
                                 IF e = entry THEN content ELSE self.entries[e]]]

\* what a raise leaves behind
Raised(self, exception) == [raised |-> exception, self |-> self]

\* Python truth value of an optional list
TruthyList(list) == list # None /\ list[1] # <<>>

\* the first sample whose name an earlier sample has, 0 when there is none
FirstDuplicate(samples) ==
    IF \E j \in 1..Len(samples) : \E i \in 1..(j - 1) : samples[i][1] = samples[j][1]
    THEN CHOOSE j \in 1..Len(samples) :
            /\ \E i \in 1..(j - 1) : samples[i][1] = samples[j][1]
            /\ \A k \in 1..(j - 1) : \A i \in 1..(k - 1) : samples[i][1] # samples[k][1]
    ELSE 0

\* "datestamps[0]" of the sorted datestamps of the flow cells
EarliestDatestamp(self, flow_cells) ==
    Some(CHOOSE d \in {flow_cells[i].datestamp : i \in 1..Len(flow_cells)} :
            \A i \in 1..Len(flow_cells) : ~StrLess(flow_cells[i].datestamp, d))

\* html_report of a flow cell or basecalls directory: its first report
\* whose name ends with ".html"
html_report(entity) ==
    IF \E i \in 1..Len(entity.reports) : EndsWith(entity.reports[i], ".html")
    THEN Some(entity.reports[CHOOSE i \in 1..Len(entity.reports) :
                                /\ EndsWith(entity.reports[i], ".html")
                                /\ \A j \in 1..(i - 1) :
                                      ~EndsWith(entity.reports[j], ".html")])
    ELSE None

\* str() of an attribute that may be None
Str(value) == IF value = None THEN "None" ELSE value[1]

\* create: the row of the TSV file for a flow cell
FlowCellRow(fc) ==
    add_base_calls(FlowcellBasecallsInfo,
                   [run |-> Str(fc.run),
                    pool_name |-> fc.pool,
                    sub_dir |-> fc.pool \o "/" \o fc.name,
                    flow_cell_id |-> fc.id,
                    reports |-> fmt_yes_no(html_report(fc)),
                    kit |-> fmt_value(fc.metadata.kit),
                    modifications |-> InfoModifications(fc.metadata),
                    trim_barcodes |-> fmt_value(fc.metadata.trim_barcodes)]).entries[1]

\* create: the row of the TSV file for a basecalls directory
BasecallsDirRow(bc) ==
    add_base_calls(FlowcellBasecallsInfo,
                   [run |-> Str(bc.run),
                    pool_name |-> bc.name,
                    sub_dir |-> bc.parent \o "/" \o bc.name,
                    flow_cell_id |-> fmt_value(bc.metadata.flow_cell_id),
                    reports |-> fmt_yes_no(html_report(bc)),
                    kit |-> fmt_value(bc.metadata.kit),
                    modifications |-> InfoModifications(bc.metadata),
                    trim_barcodes |-> fmt_value(bc.metadata.trim_barcodes)]).entries[1]

\* create: the names of the copies in the "reports" subdirectory
CopiedReports(scanned) ==
    {scanned.flow_cells[i].pool \o "_" \o scanned.flow_cells[i].id \o "_"
        \o html_report(scanned.flow_cells[i])[1] :
        i \in {j \in 1..Len(scanned.flow_cells) :
                  html_report(scanned.flow_cells[j]) # None}}
    \cup {scanned.basecalls_dirs[i].parent \o "_" \o Str(scanned.basecalls_dirs[i].pool)
             \o "_" \o Str(scanned.basecalls_dirs[i].metadata.flow_cell_id) \o "_"
             \o html_report(scanned.basecalls_dirs[i])[1] :
             i \in {j \in 1..Len(scanned.basecalls_dirs) :
                       html_report(scanned.basecalls_dirs[j]) # None}}

\* info.save(filen=self.project_info_file)
SaveInfo(self) == WriteEntry(self, "project.info", [kind |-> "info", info |-> self.info])

\* create, "Create a README file": samples.tsv is listed when it exists
WriteReadme(self) ==
    WriteEntry(self, "README",
               [kind |-> "text", lists_samples |-> "samples.tsv" \in DOMAIN self.entries])

\* create, "Make subdirectories" and "Copy in reports"
MakeSubdirectories(self, scanned) ==
    WriteEntry(WriteEntry(WriteEntry(self, "logs", Directory({})),
                          "ScriptCode", Directory({})),
               "reports", Directory(CopiedReports(scanned)))

\* create, "Collate flow cell and base calls information into TSV": the
\* file is named after the project
SaveBasecalls(self, scanned) ==
    WriteEntry(self, self.info.name[1] \o ".tsv",
               [kind |-> "basecalls",
                rows |-> [i \in 1..Len(scanned.flow_cells) |->
                             FlowCellRow(scanned.flow_cells[i])]
                         \o [i \in 1..Len(scanned.basecalls_dirs) |->
                                BasecallsDirRow(scanned.basecalls_dirs[i])]])

\* create, "Get the earliest date stamp from flow cell names": nothing is
\* set when there is no flow cell
SetDatestamp(self, scanned) ==
    IF scanned.flow_cells = <<>> THEN self
    ELSE SaveInfo([self EXCEPT !.info.datestamp =
                                   EarliestDatestamp(self, scanned.flow_cells)])

\* create from "project = ProjectDir(project_dir)" on
CreateFromProject(self, scanned) ==
    IF scanned.status = "raised" THEN Raised(self, "Exception")
    ELSE [raised |-> "",
          self |-> WriteReadme(MakeSubdirectories(
                       SetDatestamp(SaveBasecalls(self, scanned), scanned), scanned))]

\* create, "Samples": add_sample for each, which raises for a sample name
\* that is there already, then samples.tsv is saved
CreateSamples(self, samples, scanned) ==
    IF ~TruthyList(samples) THEN CreateFromProject(self, scanned)
    ELSE IF FirstDuplicate(samples[1]) # 0
        THEN Raised([self EXCEPT
                        !.samples = SubSeq(samples[1], 1, FirstDuplicate(samples[1]) - 1)],
                    "Exception")
    ELSE CreateFromProject(
             WriteEntry([self EXCEPT !.samples = samples[1]], "samples.tsv",
                        [kind |-> "samples", rows |-> SortedSamples(samples[1])]),
             scanned)

\* str(value).strip() for a value that is not None
StoredItem(old, value) == IF value = None THEN old ELSE Some(strip(value[1]))

\* create, "Store top-level metadata", up to the name
StoreMetadata(info, data_dir, args) ==
    [info EXCEPT !.user = StoredItem(@, args.user),
                 !.PI = StoredItem(@, args.PI),
                 !.application = StoredItem(@, args.application),
                 !.organism = StoredItem(@, args.organism),
                 !.data_dir = Some(data_dir),
                 !.name = Some(basename(data_dir))]

\* create from "Store top-level metadata" on: _make_project_id may raise,
\* else project.info is saved
CreateInfo(self, data_dir, id, args, scanned) ==
    IF id.raised
    THEN Raised([self EXCEPT !.info = StoreMetadata(@, data_dir, args)], "AttributeError")
    ELSE CreateSamples(
             SaveInfo([self EXCEPT !.info = [StoreMetadata(@, data_dir, args) EXCEPT
                                                !.id = id.value,
                                                !.platform = Some("promethion")]]),
             args.samples, scanned)

\* create as it would be without the test of self.exists()
create_Unchecked(self, data_dir, args, scanned) ==
    CreateInfo([self EXCEPT !.present = TRUE, !.entries = <<>>], data_dir,
               _make_project_id(basename(data_dir)), args, scanned)

\* ProjectAnalysisDir.create(project_dir, user, PI, application, organism,
\* samples); scanned is what ProjectDir(project_dir) gives
create(self, data_dir, args, scanned) ==
    IF self.present THEN Raised(self, "OSError")
    ELSE CreateInfo([self EXCEPT !.present = TRUE, !.entries = <<>>], data_dir,
                    _make_project_id(basename(data_dir)), args, scanned)

\* ','.join / '\t'.join / '\n'.join
RECURSIVE Join(_, _)
Join(strings, sep) ==
    IF strings = <<>> THEN ""
    ELSE IF Len(strings) = 1 THEN strings[1]
    ELSE strings[1] \o sep \o Join(Tail(strings), sep)

\* str(n) for a natural number
RECURSIVE IntStr(_)
IntStr(n) ==
    IF n < 10 THEN CharAt("0123456789", n + 1)
    ELSE IntStr(n \div 10) \o CharAt("0123456789", (n % 10) + 1)

\* c * n
RECURSIVE Repeat(_, _)
Repeat(c, n) == IF n <= 0 THEN "" ELSE c \o Repeat(c, n - 1)

\* os.sep.join of an absolute path's components
PathStr(path) == "/" \o Join(path, "/")

\* the path of the analysis directory: "<PROJECT>_analysis" under the top
\* directory
ANALYSIS_DIR == "/analysis/PromethION_Project_001_PerGynt_analysis"

\* report: the name and converted value of one requested field
ReportField(self, f, field) ==
    IF field = "" \/ field = "null" THEN [raised |-> FALSE, name |-> None, value |-> ""]
    ELSE IF field = "name"
        THEN [raised |-> FALSE, name |-> Some("Project name"),
              value |-> fmt_value(self.info.name)]
    ELSE IF field = "id"
        THEN [raised |-> FALSE, name |-> Some("Project ID"),
              value |-> fmt_value(self.info.id)]
    ELSE IF field = "datestamp"
        THEN [raised |-> FALSE, name |-> Some("Datestamp"),
              value |-> fmt_value(self.info.datestamp)]
    ELSE IF field = "platform"
        THEN [raised |-> FALSE, name |-> Some("Platform"),
              value |-> fmt_value(self.info.platform)]
    ELSE IF field = "user"
        THEN [raised |-> FALSE, name |-> Some("User"), value |-> fmt_value(self.info.user)]
    ELSE IF field = "pi"
        THEN [raised |-> FALSE, name |-> Some("PI"), value |-> fmt_value(self.info.PI)]
    ELSE IF field = "application"
        THEN [raised |-> FALSE, name |-> Some("Application"),
              value |-> fmt_value(self.info.application)]
    ELSE IF field = "organism"
        THEN [raised |-> FALSE, name |-> Some("Organism"),
              value |-> fmt_value(self.info.organism)]
    ELSE IF field = "nsamples" \/ field = "#samples"
        THEN [raised |-> FALSE, name |-> Some("#samples"),
              value |-> IF Len(self.samples) = 0 THEN "?" ELSE IntStr(Len(self.samples))]
    ELSE IF field = "sample_names" \/ field = "samples"
        THEN [raised |-> FALSE, name |-> Some("samples"),
              value |-> IF Join([i \in 1..Len(self.samples) |-> self.samples[i][1]], ",") = ""
                        THEN "?"
                        ELSE Join([i \in 1..Len(self.samples) |-> self.samples[i][1]], ",")]
    ELSE IF field = "primary_data"
        THEN [raised |-> FALSE, name |-> Some("Primary data dir"),
              value |-> IF self.info.data_dir = None THEN "?"
                        ELSE PathStr(self.info.data_dir[1])]
    ELSE IF field = "analysis_dir"
        THEN [raised |-> FALSE, name |-> Some("Analysis dir"), value |-> ANALYSIS_DIR]
    ELSE IF field = "comments"
        THEN [raised |-> FALSE, name |-> Some("Comments"),
              value |-> IF self.info.comments = None THEN "" ELSE self.info.comments[1]]
    ELSE [raised |-> TRUE, name |-> None, value |-> f]

\* report, "Collect data to report": names and values field by field
ReportFields(self, fields) ==
    [i \in 1..Len(fields) |-> ReportField(self, fields[i], lower(strip(fields[i])))]

\* report, "Generate output", in "summary" mode: a title, then a line for
\* each field, empty for a field without a name
SummaryLines(self, collected) ==
    <<self.info.name[1], Repeat("=", Len(self.info.name[1]))>>
    \o [i \in 1..Len(collected) |->
           IF collected[i].name = None THEN ""
           ELSE collected[i].name[1] \o Repeat(" ", 16 - Len(collected[i].name[1]))
                \o ": " \o collected[i].value]

\* report's output as it would be with the values for empty field names
\* left out
ReportOutput_EmptyFieldsDropped(self, mode, collected) ==
    [raised |-> "",
     value |-> Some(Join(SelectSeq([i \in 1..Len(collected) |-> collected[i].value],
                                   LAMBDA v : v # ""), "\t"))]

\* report from "Generate output" on: collected is what the loop over the
\* fields gave
ReportOutput(self, mode, collected) ==
    IF \E i \in 1..Len(collected) : collected[i].raised
        THEN [raised |-> "KeyError", value |-> None]
    ELSE IF mode = "tsv"
        THEN [raised |-> "",
              value |-> Some(Join([i \in 1..Len(collected) |-> collected[i].value], "\t"))]
    ELSE IF self.info.name = None
        THEN [raised |-> "TypeError", value |-> None]
    ELSE [raised |-> "", value |-> Some(Join(SummaryLines(self, collected), "\n"))]

\* ProjectAnalysisDir.report(mode, fields)
report(self, mode, fields) ==
    IF mode \notin {"summary", "tsv"} THEN [raised |-> "Exception", value |-> None]
    ELSE ReportOutput(self, mode, ReportFields(self, SplitOn(fields, ",")))

\* a project directory with the given directories under it, each listing in
\* some order
MockTree(root, layout) ==
    [d \in {root} \cup {root \o rel : rel \in layout} |->
        CHOOSE listing \in Orderings({basename(rel) : rel \in {r \in layout :
                                                                 root \o dirname(r) = d}}) :
            TRUE]

\* the report MockFlowcellDir.create and MockBasecallsDir.create write, in
\* every directory that has data directories
MockFiles(dirs, with_reports) ==
    [d \in DOMAIN dirs |->
        IF with_reports /\ ClassifyDirs(dirs[d]) # "none"
        THEN <<File("report_" \o FC_A \o ".html", HtmlReportContent(HTML_JSON_DATA_25))>>
        ELSE <<>>]

\* the data directories handed to create: the one of
\* test_project_analysis_dir_create, one with a flow cell directory whose
\* name is no flow cell name, and an empty one
DataLayouts ==
    {{<<RUN>>, <<RUN, POOL_A>>, <<RUN, POOL_A, FC_A>>, <<RUN, POOL_A, FC_A, "pod5">>,
      <<RUN, REBASECALLING>>, <<RUN, REBASECALLING, POOL_A>>,
      <<RUN, REBASECALLING, POOL_A, "pass">>},
     {<<RUN>>, <<RUN, POOL_A>>, <<RUN, POOL_A, "bam_pass">>},
     {}}

\* project directories whose names do and do not have the form
\* PromethION_Project_<number>_<name>
DataDirectories ==
    {PROJECT_DIR, <<"data", "PromethION_Project_PerGynt">>, <<"data", "PromethION_Project_12_">>}

\* the samples of test_project_analysis_dir_create_with_samples, not in
\* order and with a flow cell left out; the same with a name twice
SAMPLES == <<<<"PG2", "NB04", Some("PAW15419")>>, <<"PG1", "NB03", Some("PAW15419")>>,
             <<"PG3", "NB05", None>>>>

SampleLists == {None, Some(<<>>), Some(SAMPLES), Some(SAMPLES \o <<SAMPLES[1]>>)}

\* the arguments of create
CreateArguments ==
    {[user |-> Some("Per Gynt"), PI |-> Some("Henrik Ibsen"),
      application |-> Some("Methylation study"), organism |-> Some("Human"),
      samples |-> samples] : samples \in SampleLists}
    \cup {[user |-> Some(" Per Gynt\n"), PI |-> Some("Henrik Ibsen"),
           application |-> None, organism |-> None, samples |-> None]}

\* the arguments of report
ReportArguments ==
    {<<"tsv", "name,#samples,user,pi">>,
     <<"tsv", "name,id,,Datestamp, NULL ,organism,samples">>,
     <<"tsv", "comments,primary_data,analysis_dir,platform,nsamples,sample_names,application">>,
     <<"tsv", "">>,
     <<"tsv", "name,flowcells,id">>,
     <<"summary", "name,id,,user,comments">>,
     <<"summary", "name,run">>,
     <<"csv", "name,id">>,
     <<"TSV", "name,flowcells">>}

\* what MockProjectAnalysisDir.create makes, loaded by ProjectAnalysisDir(path)
ExistingAnalysisDir ==
    [present |-> TRUE,
     entries |->
         [e \in {"logs", "ScriptCode", "README", "project.info", "samples.tsv",
                 "PromethION_Project_001_PerGynt.tsv"} |->
             IF e \in {"logs", "ScriptCode"} THEN Directory({})
             ELSE IF e = "README" THEN [kind |-> "text", lists_samples |-> FALSE]
             ELSE IF e = "project.info"
                 THEN [kind |-> "info",
                       info |-> [ProjectInfo EXCEPT
                                    !.name = Some("PromethION_Project_001_PerGynt"),
                                    !.id = Some("PROMETHION#001"),
                                    !.platform = Some("promethion"),
                                    !.user = Some("Per Gynt"),
                                    !.PI = Some("Henrik Ibsen"),
                                    !.application = Some("Methylation study"),
                                    !.organism = Some("Human"),
                                    !.data_dir = Some(<<"mnt", "data",
                                                        "PromethION_Project_001_PerGynt">>)]]
             ELSE IF e = "samples.tsv"
                 THEN [kind |-> "samples",
                       rows |-> <<<<"PG1", "PAW14589", Some("NB03")>>,
                                  <<"PG2", "PAW14589", Some("NB04")>>>>]
             ELSE [kind |-> "basecalls", rows |-> <<>>]],
     info |-> [ProjectInfo EXCEPT
                  !.name = Some("PromethION_Project_001_PerGynt"),
                  !.id = Some("PROMETHION#001"),
                  !.platform = Some("promethion"),
                  !.user = Some("Per Gynt"),
                  !.PI = Some("Henrik Ibsen"),
                  !.application = Some("Methylation study"),
                  !.organism = Some("Human"),
                  !.data_dir = Some(<<"mnt", "data", "PromethION_Project_001_PerGynt">>)],
     samples |-> <<<<"PG1", "PAW14589", Some("NB03")>>, <<"PG2", "PAW14589", Some("NB04")>>>>]

\* the most create and report calls on one ProjectAnalysisDir
MaxCalls == 2

\* no call yet
NoOutcome == [op |-> "none", args |-> <<>>, raised |-> "", value |-> None, calls |-> 0]

AnalysisInit ==
    /\ project_dir \in DataDirectories
    /\ \E layout \in DataLayouts : \E with_reports \in BOOLEAN :
          /\ tree = MockTree(project_dir, layout)
          /\ files = MockFiles(MockTree(project_dir, layout), with_reports)
    /\ located = [flow_cell_dirs |-> {}, basecalls_dirs |-> {}]
    /\ project = NoProject
    /\ InitMetadata
    /\ InitCalls
    /\ record = NoRecord
    /\ analysis_dir \in {NewProjectAnalysisDir, ExistingAnalysisDir}
    /\ outcome = NoOutcome
    /\ basecalls_info = <<>>
    /\ samples_csv = <<>>
    /\ fetched = <<>>

\* analysis_dir.create(project_dir, ...), the caller catching what it raises
Create(args) ==
    /\ outcome.calls < MaxCalls
    /\ \E fc_order \in Orderings(Locate(project_dir).flow_cell_dirs) :
       \E bc_order \in Orderings(Locate(project_dir).basecalls_dirs) :
       \E result \in {create(analysis_dir, project_dir, args,
                             ProjectDir(project_dir, fc_order, bc_order))} :
          /\ analysis_dir' = result.self
          /\ outcome' = [op |-> "create", args |-> args, raised |-> result.raised,
                         value |-> None, calls |-> outcome.calls + 1]
    /\ UNCHANGED <<scan_vars, meta_vars, flow_cell, name_vars, record, basecalls_info,
                   samples_csv, fetched>>

\* analysis_dir.report(mode, fields), the caller catching what it raises
Report(mode, fields) ==
    /\ outcome.calls < MaxCalls
    /\ \E result \in {report(analysis_dir, mode, fields)} :
          outcome' = [op |-> "report", args |-> [mode |-> mode, fields |-> fields],
                      raised |-> result.raised, value |-> result.value,
                      calls |-> outcome.calls + 1]
    /\ UNCHANGED <<scan_vars, meta_vars, flow_cell, name_vars, record, analysis_dir,
                   basecalls_info, samples_csv, fetched>>

AnalysisNext ==
    \/ \E args \in CreateArguments : Create(args)
    \/ \E call \in ReportArguments : Report(call[1], call[2])

AnalysisSpec == AnalysisInit /\ [][AnalysisNext]_vars

(***************************************************************************)
(* C21: the modifications field of the exported record                     *)
(***************************************************************************)
\* C21: in the record exported for a flow cell or basecalls directory the
\* modifications field is "none" exactly when modified_basecalling is
\* "Off"; otherwise it is the extracted description when there is one and
\* "?" when there is none, also when no HTML report was loaded
C21_ModificationsNoneExactlyWhenOff ==
    record # NoRecord =>
        /\ record.modifications = "none" <=> metadata.modified_basecalling = Some("Off")
        /\ metadata.modified_basecalling # Some("Off") =>
              record.modifications = IF metadata.modifications = None
                                     THEN "?"
                                     ELSE metadata.modifications[1]
        /\ metadata.html_json_data = None => record.modifications = "?"

\* a record was exported after an HTML report with modified basecalling
\* off, which has an item about the modifications, was loaded
C21_Witness ==
    /\ record # NoRecord
    /\ last_load = "returned"
    /\ metadata.modified_basecalling = Some("Off")
    /\ HasKey(RunSettings, "modifications")
    /\ record.modifications = "none"

(***************************************************************************)
(* C24: add_base_calls                                                     *)
(***************************************************************************)
\* the column the claim gives each keyword
ClaimedColumns ==
    [run |-> "Run", pool_name |-> "PoolName", sub_dir |-> "SubDir",
     flow_cell_id |-> "FlowCellID", reports |-> "Reports", kit |-> "Kit",
     modifications |-> "Modifications", trim_barcodes |-> "TrimBarcodes",
     minknow_version |-> "MinknowVersion", basecalling_model |-> "BasecallingModel",
     file_types |-> "FileTypes"]

\* C24: add_base_calls with any of the keywords run, pool_name, sub_dir,
\* flow_cell_id, reports, kit, modifications, trim_barcodes, minknow_version,
\* basecalling_model and file_types appends exactly one entry whose columns
\* hold the values given; with an unknown keyword it raises and appends
\* nothing
C24_ElevenKeywordsAppendOneEntry ==
    [][basecalls_info # <<>> /\ basecalls_info' # basecalls_info =>
          IF basecalls_info'.kws[1] \subseteq DOMAIN ClaimedColumns
          THEN /\ ~basecalls_info'.raised
               /\ Len(basecalls_info'.entries) = Len(basecalls_info.entries) + 1
               /\ SubSeq(basecalls_info'.entries, 1, Len(basecalls_info.entries))
                     = basecalls_info.entries
               /\ \A k \in basecalls_info'.kws[1] :
                     Column(basecalls_info'.entries[Len(basecalls_info'.entries)],
                            ClaimedColumns[k]) = Some(BaseCallsValues[k])
          ELSE /\ basecalls_info'.raised
               /\ basecalls_info'.entries = basecalls_info.entries]_vars

(***************************************************************************)
(* C26: the samples CSV file read by cli.setup                             *)
(***************************************************************************)
\* the fields of the j-th line after the header
DataFields(j) == SplitOn(strip(samples_csv.lines[j + 1]), ",")

\* the lines up to the j-th after the header that have a flow cell
WithFlowCell(j) == {k \in 1..j : Len(DataFields(k)) = 3 /\ DataFields(k)[3] # ""}

\* the flow cell of the nearest of those lines, None when there is none
NearestFlowCell(j) ==
    IF WithFlowCell(j) = {} THEN None
    ELSE Some(DataFields(CHOOSE k \in WithFlowCell(j) :
                            \A other \in WithFlowCell(j) : other <= k)[3])

\* C26: the first line is ignored; when every later line has 2 or 3
\* comma-separated fields each yields one (sample, barcode, flowcell) entry,
\* in file order, and a line with no flow cell field or an empty one gets
\* the flow cell of the nearest earlier line that had one
C26_EveryLineYieldsOneEntry ==
    (/\ samples_csv # <<>>
     /\ samples_csv.status # "unread"
     /\ \A j \in 1..(Len(samples_csv.lines) - 1) : Len(DataFields(j)) \in {2, 3})
    => /\ samples_csv.status = "read"
       /\ Len(samples_csv.samples) = Len(samples_csv.lines) - 1
       /\ \A j \in 1..(Len(samples_csv.lines) - 1) :
             samples_csv.samples[j]
                = <<DataFields(j)[1], DataFields(j)[2], NearestFlowCell(j)>>

(***************************************************************************)
(* C27: the steps of cli.fetch                                             *)
(***************************************************************************)
\* the commands run so far
Ran(i) == fetched.executed[i].run

IsDataTransfer(i) == Ran(i).command = "rsync" /\ "report_*" \notin Ran(i).includes

IsReportTransfer(i) == Ran(i).command = "rsync" /\ "report_*" \in Ran(i).includes

IsGroupChange(i) == Ran(i).command = "set_group"

\* a requested file type is none of pod5, fastq, bam in any case
UnknownTypeRequested ==
    \E i \in 1..Len(fetched.requested) :
       lower(fetched.requested[i]) \notin {"pod5", "fastq", "bam"}

\* C27: cli.fetch runs its steps in a fixed order and stops at the first
\* failure: no command is run when a requested file type is unknown; the
\* reports are transferred only after the data transfer returned 0; the
\* group is changed only after both transfers returned 0 and never in a dry
\* run; a non-zero status raises and no later step runs
C27_FetchStepsInOrderUntilFailure ==
    fetched # <<>> =>
        /\ UnknownTypeRequested => fetched.executed = <<>>
        /\ \A i \in 1..Len(fetched.executed) :
              /\ IsDataTransfer(i) => i = 1
              /\ IsReportTransfer(i) =>
                    i = 2 /\ IsDataTransfer(1) /\ fetched.executed[1].status = 0
              /\ IsGroupChange(i) =>
                    /\ i = 3
                    /\ IsDataTransfer(1) /\ fetched.executed[1].status = 0
                    /\ IsReportTransfer(2) /\ fetched.executed[2].status = 0
                    /\ ~fetched.dry_run
              /\ fetched.executed[i].status # 0 =>
                    i = Len(fetched.executed) /\ fetched.pc = "raised"

\* a fetch whose data transfer returned 0 and whose report transfer failed:
\* it raised and the group was not changed
C27_Witness ==
    /\ fetched # <<>>
    /\ fetched.group # None
    /\ ~fetched.dry_run
    /\ Len(fetched.executed) = 2
    /\ fetched.executed[1].status = 0
    /\ fetched.executed[2].status # 0
    /\ fetched.pc = "raised"

(***************************************************************************)
(* C28: a load_from_report call that raises                                *)
(***************************************************************************)
\* C28: when a load_from_report call, of an HTML or a JSON report, raises,
\* every field of the metadata has the value it had before the call
C28_FailedLoadChangesNothing ==
    [][loaded' # loaded /\ last_load' = "raised" => metadata' = metadata]_vars

(***************************************************************************)
(* C30: the pool of a basecalls directory and the names above the project  *)
(***************************************************************************)
\* the components of a path below the project directory
BelowProject(path) == SubSeq(path, Len(project_dir) + 1, Len(path))

\* C30: the pool given to a basecalls directory is a directory name of the
\* part of its path below the project directory; the project directory's
\* own name and the names above it never make a flow cell's pool match
C30_PoolIsNameBelowProjectRoot ==
    Built =>
        \A bc \in BasecallsDirs :
            bc.pool # None => bc.pool[1] \in Range(BelowProject(bc.path))

(***************************************************************************)
(* C22: after ProjectAnalysisDir.create succeeds, the analysis directory   *)
(* exists and contains README, project.info, basecalling.tsv and the       *)
(* subdirectories logs and ScriptCode, and it contains samples.tsv exactly *)
(* when a non-empty sample list was passed to create.                      *)
(***************************************************************************)
CreateSucceeded == outcome.op = "create" /\ outcome.raised = ""

C22_CreatedDirectoryHoldsItsFiles ==
    CreateSucceeded =>
        /\ analysis_dir.present
        /\ {"README", "project.info", "basecalling.tsv", "logs", "ScriptCode"}
               \subseteq DOMAIN analysis_dir.entries
        /\ analysis_dir.entries["logs"].kind = "directory"
        /\ analysis_dir.entries["ScriptCode"].kind = "directory"
        /\ "samples.tsv" \in DOMAIN analysis_dir.entries <=> TruthyList(outcome.args.samples)

(***************************************************************************)
(* C23: create on a path that already exists raises OSError before doing   *)
(* anything else: no file or directory is created or modified and the      *)
(* stored project info is unchanged; on a path that does not exist,        *)
(* exists() is false before create and true after it.                      *)
(***************************************************************************)
C23_CreateRefusesAnExistingPath ==
    [][outcome'.op = "create" =>
           IF analysis_dir.present
           THEN outcome'.raised = "OSError" /\ analysis_dir' = analysis_dir
           ELSE outcome'.raised # "OSError" /\ analysis_dir'.present]_vars

\* a second create on the directory a first create has just made
C23_Witness ==
    /\ outcome.op = "create"
    /\ outcome.calls = 2
    /\ outcome.raised = "OSError"
    /\ analysis_dir.present
    /\ "README" \in DOMAIN analysis_dir.entries
    /\ analysis_dir.info.data_dir = Some(project_dir)

(***************************************************************************)
(* C25: report in "tsv" mode returns exactly one value per requested       *)
(* field, in the order requested, joined by tabs, with an empty value for  *)
(* an empty or NULL field name; a field name that is not recognised raises *)
(* KeyError and a mode other than "summary" or "tsv" raises an error.      *)
(***************************************************************************)
RecognisedFields ==
    {"", "null", "name", "id", "datestamp", "platform", "user", "pi", "application",
     "organism", "nsamples", "#samples", "sample_names", "samples", "primary_data",
     "analysis_dir", "comments"}

Requested == SplitOn(outcome.args.fields, ",")

AllRecognised == \A i \in 1..Len(Requested) : lower(strip(Requested[i])) \in RecognisedFields

\* the i-th requested field reported on its own
ValueAlone(i) == report(analysis_dir, "tsv", Requested[i]).value[1]

\* an item of the project info as a report shows it
Shown(item) == IF item = None THEN "?" ELSE item[1]

C25_TsvHasOneValuePerField ==
    outcome.op = "report" =>
        /\ outcome.args.mode \notin {"summary", "tsv"} => outcome.raised = "Exception"
        /\ outcome.args.mode = "tsv" /\ ~AllRecognised => outcome.raised = "KeyError"
        /\ outcome.args.mode = "tsv" /\ AllRecognised =>
              /\ outcome.raised = ""
              /\ Len(SplitOn(outcome.value[1], "\t")) = Len(Requested)
              /\ \A i \in 1..Len(Requested) :
                    /\ SplitOn(outcome.value[1], "\t")[i] = ValueAlone(i)
                    /\ lower(strip(Requested[i])) \in {"", "null"}
                           => SplitOn(outcome.value[1], "\t")[i] = ""
                    /\ lower(strip(Requested[i])) = "name"
                           => SplitOn(outcome.value[1], "\t")[i]
                                  = Shown(analysis_dir.info.name)
                    /\ lower(strip(Requested[i])) = "organism"
                           => SplitOn(outcome.value[1], "\t")[i]
                                  = Shown(analysis_dir.info.organism)

\* a report of seven fields, an empty one and a NULL among them, on a
\* directory with samples
C25_Witness ==
    /\ outcome.op = "report"
    /\ outcome.args.mode = "tsv"
    /\ outcome.raised = ""
    /\ Len(Requested) = 7
    /\ \E i \in 1..Len(Requested) : Requested[i] = ""
    /\ \E i \in 1..Len(Requested) : lower(strip(Requested[i])) = "null"
    /\ analysis_dir.samples # <<>>
    /\ Len(SplitOn(outcome.value[1], "\t")) = 7

(***************************************************************************)
(* C29: if create raises for any reason other than the path already        *)
(* existing (project name not of the form PromethION_Project_<number>_     *)
(* <name>, or the project scan raising), the analysis directory does not   *)
(* exist afterwards, so a later create on the same path is not rejected    *)
(* with "already exists".                                                  *)
(***************************************************************************)
C29_FailedCreateLeavesNoDirectory ==
    [][/\ outcome'.op = "create"
       /\ outcome'.raised \notin {"", "OSError"}
       => ~analysis_dir'.present]_vars

====
